---- MODULE Spec2Model ----
(***************************************************************************)
(* Model of the exposure-manager panel (frontend/alias-suggestions.js):    *)
(* the pending configuration and the device <-> entity override            *)
(* propagation that every button click runs on it.                         *)
(*                                                                         *)
(* JavaScript values: the booleans of `expose` are the strings "true" and  *)
(* "false" and JavaScript's null is "null", so that a nullable `expose`    *)
(* has one type.  A stored override is a tagged record: [kind |-> "absent"]*)
(* for a missing key, [kind |-> "boolean", value |-> b] for the very old   *)
(* bare boolean, [kind |-> "object", expose |-> b, source |-> s] for       *)
(* { expose, source }; an object carries the keys it has, and the other    *)
(* JSON values a slot can hold have kinds of their own.                    *)
(* filtered_entities / filtered_devices are arrays that the code only      *)
(* reads with includes/indexOf and only extends when indexOf < 0; they are *)
(* modelled as sets, and so are bulk_rules.expose_domains and              *)
(* exclude_areas.                                                          *)
(*                                                                         *)
(* Rows hidden by a filter are rendered again once "Show filtered" is      *)
(* checked, and the checkbox is offered whenever something is filtered, so *)
(* every row's buttons can be reached in every state: the checkbox puts no *)
(* guard on the actions and is left out.  lastAction records the last      *)
(* handler that ran and filtersTouched whether a filter button was ever    *)
(* clicked; the program has neither, and no action reads them.             *)
(*                                                                         *)
(* SpecNormalize applies the two override getters to every JSON value a    *)
(* loaded override slot can hold; returned records what each getter        *)
(* returned.                                                               *)
(*                                                                         *)
(* SpecResolve runs the backend's decision resolver, as the specification  *)
(* describes it (the backend's code is not part of the sources), on the    *)
(* config a compute_preview request carries.                               *)
(*                                                                         *)
(* SpecPanel is the whole panel: loading, editing, tab navigation with the *)
(* unsaved-changes dialog, preview and save, with every hass.callWS        *)
(* request answered (or failed) in a step of its own, so that the user may *)
(* act while a request is in flight.  SpecPanelLive is the same panel with *)
(* every request answered in the end (weak fairness of the answers).       *)
(***************************************************************************)
EXTENDS Integers, Sequences, FiniteSets

VARIABLES _pendingConfig, _hasChanges, lastAction, filtersTouched, returned,
          decisions,
          _config, _activeTab, _showPreview, _showUnsavedDialog,
          _pendingNavigation, _saving, _loading, _error, _preview,
          _migrationNeeded, _editingEntity, topologyLoaded,
          serverConfig, serverMigration,
          loadCall, saveCall, previewCalls,
          edits, requests, previewOf, persisted

\* the variables of the override editor, and those only the getter
\* specification SpecNormalize changes
editorVars == <<_pendingConfig, _hasChanges, lastAction, filtersTouched>>
normalizeVars == <<returned>>
\* the result of the backend's resolution pass (SpecResolve)
resolveVars == <<decisions>>
\* the panel around the editor (SpecPanel): its reactive properties; the
\* backend's stored config and migration flag; the hass.callWS requests in
\* flight; and the history the program does not keep: edits counts the
\* edit operations and requests the compute_preview and save_config
\* requests, previewOf is the config of the request whose result
\* _preview holds, persisted the config last loaded from or saved to the
\* server.
panelVars ==
  <<_config, _activeTab, _showPreview, _showUnsavedDialog,
    _pendingNavigation, _saving, _loading, _error, _preview,
    _migrationNeeded, _editingEntity, topologyLoaded>>
serverVars == <<serverConfig, serverMigration>>
callVars == <<loadCall, saveCall, previewCalls>>
historyVars == <<edits, requests, previewOf, persisted>>
vars ==
  <<editorVars, normalizeVars, resolveVars,
    panelVars, serverVars, callVars, historyVars>>
\* what the actions of the override editor leave alone
outsideEditor ==
  <<normalizeVars, resolveVars, panelVars, serverVars, callVars, historyVars>>

\* ---------------------------------------------------------------- bounds
NumEntities == 3
NumDevices == 1

\* edit operations of one panel session, and compute_preview and
\* save_config requests of one session
MaxEdits == 2
MaxRequests == 2

\* longest exclude_patterns list a resolved config carries
MaxPatterns == 1

\* edit operations and requests of one session of the panel under
\* fairness (SpecPanelLive)
MaxLiveEdits == 1
MaxLiveRequests == 2

\* -------------------------------------------------------------- topology
\* this._entities: entity i is owned by device device_id (0: no device).
\* Device 1 owns entities 1 and 2, every further device owns one entity,
\* the remaining entities are standalone.
_entities ==
  [i \in 1..NumEntities |->
     [entity_id |-> i,
      device_id |-> IF i <= 2 THEN 1
                    ELSE IF i - 1 <= NumDevices THEN i - 1 ELSE 0]]

_devices == [i \in 1..NumDevices |-> [id |-> i]]

EntityIds == {_entities[i].entity_id : i \in 1..NumEntities}
DeviceIds == {_devices[i].id : i \in 1..NumDevices}
ExposeValues == {"true", "false"}

\* -------------------------------------------------------- stored values
Absent == [kind |-> "absent"]
NULL == [kind |-> "null"]

\* the object literal { expose, source }
OverrideObject(expose, source) ==
  [kind |-> "object", expose |-> expose, source |-> source]

\* a thrown TypeError, and a getter that has not been called yet
TypeError == [kind |-> "TypeError"]
NoInfo == [kind |-> "none"]

\* a resolver decision with its exclusion reason, and an entity the
\* resolver has not decided yet
Decision(decision, reason) == [decision |-> decision, reason |-> reason]
NotResolved == Decision("pending", "none")

\* The JSON values an override slot of a loaded config can hold.  A slot is
\* tagged with its kind; an object carries the keys it has.
SourceValues == {"null", "", "selected", "implied", "other"}
StoredEncodings ==
  {Absent, NULL, [kind |-> "array"], [kind |-> "object"]}
    \cup {[kind |-> "boolean", value |-> b] : b \in ExposeValues}
    \cup {[kind |-> "number", value |-> n] : n \in {"0", "1"}}
    \cup {[kind |-> "string", value |-> t] : t \in {"", "x"}}
    \cup {[kind |-> "object", source |-> "selected"]}
    \cup {[kind |-> "object", expose |-> b] : b \in ExposeValues}
    \cup {OverrideObject(b, src) : b \in ExposeValues, src \in SourceValues}

\* JavaScript truthiness of a scalar (`override.source || 'selected'`)
FalsyValue(v) == v \in {"undefined", "null", "", "false", "0"}

\* JavaScript truthiness of a stored override slot (`!override`)
Falsy(override) ==
  \/ override.kind = "absent"
  \/ override.kind = "null"
  \/ override.kind \in {"boolean", "number", "string"}
       /\ FalsyValue(override.value)

\* typeof override
TypeOf(override) ==
  CASE override.kind = "absent" -> "undefined"
    [] override.kind \in {"null", "array", "object"} -> "object"
    [] OTHER -> override.kind

\* override.source of an object
SourceField(override) ==
  IF "source" \in DOMAIN override THEN override.source ELSE "undefined"

\* the getter body with the inverted test of the source
NormalizeFlipSource(override) ==
  IF Falsy(override) THEN NULL
  ELSE IF TypeOf(override) = "object"
    THEN IF override.kind = "null" THEN TypeError
         ELSE IF "expose" \in DOMAIN override
           THEN [expose |-> override.expose,
                 source |-> IF SourceField(override) = "selected"
                            THEN "implied" ELSE "selected"]
         ELSE NULL
  ELSE IF TypeOf(override) = "boolean"
    THEN [expose |-> override.value, source |-> "selected"]
  ELSE NULL

\* the getter body without the `if (!override) return null` guard
NormalizeNoFalsyGuard(override) ==
  IF TypeOf(override) = "object"
    THEN IF override.kind = "null" THEN TypeError
         ELSE IF "expose" \in DOMAIN override
           THEN [expose |-> override.expose,
                 source |-> IF FalsyValue(SourceField(override))
                            THEN "selected" ELSE SourceField(override)]
         ELSE NULL
  ELSE IF TypeOf(override) = "boolean"
    THEN [expose |-> override.value, source |-> "selected"]
  ELSE NULL

\* body shared by _getEntityOverrideInfo and _getDeviceOverrideInfo.
\* `'expose' in override` throws a TypeError when override is null, the one
\* value of type 'object' that is not an object.
NormalizeOverride(override) ==
  IF Falsy(override) THEN NULL
  ELSE IF TypeOf(override) = "object"
    THEN IF override.kind = "null" THEN TypeError
         ELSE IF "expose" \in DOMAIN override
           THEN [expose |-> override.expose,
                 source |-> IF FalsyValue(SourceField(override))
                            THEN "selected" ELSE SourceField(override)]
         ELSE NULL
  ELSE IF TypeOf(override) = "boolean"
    THEN [expose |-> override.value, source |-> "selected"]
  ELSE NULL

_getEntityOverrideInfo(config, entityId) ==
  NormalizeOverride(config.entity_overrides[entityId])

_getDeviceOverrideInfo(config, deviceId) ==
  NormalizeOverride(config.device_overrides[deviceId])

\* info?.source and info?.expose
SourceOf(info) == IF info = NULL THEN "undefined" ELSE info.source
ExposeOf(info) == IF info = NULL THEN "undefined" ELSE info.expose

_isEntityFiltered(config, entityId) == entityId \in config.filtered_entities

_isDeviceFiltered(config, deviceId) == deviceId \in config.filtered_devices

\* this._entities.filter(e => e.device_id === deviceId), in array order
DeviceEntities(deviceId) ==
  SelectSeq(_entities, LAMBDA e : e.device_id = deviceId)

\* the device's entities, filtered ones included
ActiveEntitiesUnfiltered(config, deviceId) == DeviceEntities(deviceId)

\* deviceEntities.filter(e => !this._isEntityFiltered(e.entity_id))
ActiveEntities(config, deviceId) ==
  SelectSeq(DeviceEntities(deviceId),
            LAMBDA e : ~_isEntityFiltered(config, e.entity_id))

_getNonFilteredEntityCount(config, deviceId) ==
  Len(ActiveEntities(config, deviceId))

\* ------------------------------------------------------------ propagation
\* _propagateDeviceToEntities that sets only the entities without override
PropagateOnlyUnset(config, deviceId, expose, deviceSource) ==
  LET owned == {DeviceEntities(deviceId)[i].entity_id :
                  i \in 1..Len(DeviceEntities(deviceId))}
      step(entityId) ==
        LET currentOverride == _getEntityOverrideInfo(config, entityId)
        IN  IF entityId \notin owned \/ _isEntityFiltered(config, entityId)
              THEN config.entity_overrides[entityId]
            ELSE IF expose = "null"
              THEN IF SourceOf(currentOverride) = "implied"
                   THEN Absent
                   ELSE config.entity_overrides[entityId]
            ELSE IF currentOverride = NULL
              THEN OverrideObject(expose, "implied")
            ELSE config.entity_overrides[entityId]
  IN  [config EXCEPT !.entity_overrides = [e \in EntityIds |-> step(e)]]

\* _propagateDeviceToEntities that keeps implied entities on a device unset
PropagateKeepImplied(config, deviceId, expose, deviceSource) ==
  LET owned == {DeviceEntities(deviceId)[i].entity_id :
                  i \in 1..Len(DeviceEntities(deviceId))}
      step(entityId) ==
        LET currentOverride == _getEntityOverrideInfo(config, entityId)
        IN  IF entityId \notin owned \/ _isEntityFiltered(config, entityId)
              THEN config.entity_overrides[entityId]
            ELSE IF expose = "null" THEN config.entity_overrides[entityId]
            ELSE IF currentOverride = NULL
                    \/ SourceOf(currentOverride) = "implied"
              THEN OverrideObject(expose, "implied")
            ELSE config.entity_overrides[entityId]
  IN  [config EXCEPT !.entity_overrides = [e \in EntityIds |-> step(e)]]

\* _propagateDeviceToEntities that writes the device's source to the entities
PropagateDeviceSource(config, deviceId, expose, deviceSource) ==
  LET owned == {DeviceEntities(deviceId)[i].entity_id :
                  i \in 1..Len(DeviceEntities(deviceId))}
      step(entityId) ==
        LET currentOverride == _getEntityOverrideInfo(config, entityId)
        IN  IF entityId \notin owned \/ _isEntityFiltered(config, entityId)
              THEN config.entity_overrides[entityId]
            ELSE IF expose = "null"
              THEN IF SourceOf(currentOverride) = "implied"
                   THEN Absent
                   ELSE config.entity_overrides[entityId]
            ELSE IF currentOverride = NULL
                    \/ SourceOf(currentOverride) = "implied"
              THEN OverrideObject(expose, deviceSource)
            ELSE config.entity_overrides[entityId]
  IN  [config EXCEPT !.entity_overrides = [e \in EntityIds |-> step(e)]]

\* _propagateDeviceToEntities without the skip of filtered entities
PropagateToFiltered(config, deviceId, expose, deviceSource) ==
  LET owned == {DeviceEntities(deviceId)[i].entity_id :
                  i \in 1..Len(DeviceEntities(deviceId))}
      step(entityId) ==
        LET currentOverride == _getEntityOverrideInfo(config, entityId)
        IN  IF entityId \notin owned THEN config.entity_overrides[entityId]
            ELSE IF expose = "null"
              THEN IF SourceOf(currentOverride) = "implied"
                   THEN Absent
                   ELSE config.entity_overrides[entityId]
            ELSE IF currentOverride = NULL
                    \/ SourceOf(currentOverride) = "implied"
              THEN OverrideObject(expose, "implied")
            ELSE config.entity_overrides[entityId]
  IN  [config EXCEPT !.entity_overrides = [e \in EntityIds |-> step(e)]]

\* _propagateDeviceToEntities without the test that spares selected entities
PropagateOverSelected(config, deviceId, expose, deviceSource) ==
  LET owned == {DeviceEntities(deviceId)[i].entity_id :
                  i \in 1..Len(DeviceEntities(deviceId))}
      step(entityId) ==
        IF entityId \notin owned \/ _isEntityFiltered(config, entityId)
          THEN config.entity_overrides[entityId]
        ELSE IF expose = "null" THEN Absent
        ELSE OverrideObject(expose, "implied")
  IN  [config EXCEPT !.entity_overrides = [e \in EntityIds |-> step(e)]]

\* Downward: the loop over the device's entities; every iteration reads the
\* entity's override from the unmodified this._pendingConfig.
_propagateDeviceToEntities(config, deviceId, expose, deviceSource) ==
  LET owned == {DeviceEntities(deviceId)[i].entity_id :
                  i \in 1..Len(DeviceEntities(deviceId))}
      step(entityId) ==
        LET currentOverride == _getEntityOverrideInfo(config, entityId)
        IN  IF entityId \notin owned THEN config.entity_overrides[entityId]
            ELSE IF _isEntityFiltered(config, entityId)
              THEN config.entity_overrides[entityId]
            ELSE IF expose = "null"
              THEN IF SourceOf(currentOverride) = "implied"
                   THEN Absent
                   ELSE config.entity_overrides[entityId]
            ELSE IF currentOverride = NULL
                    \/ SourceOf(currentOverride) = "implied"
              THEN OverrideObject(expose, "implied")
            ELSE config.entity_overrides[entityId]
  IN  [config EXCEPT !.entity_overrides = [e \in EntityIds |-> step(e)]]

\* the scan without the comparison of the expose values
RECURSIVE ScanIgnoreValue(_, _, _, _)
ScanIgnoreValue(config, activeEntities, i, acc) ==
  IF i > Len(activeEntities) THEN acc
  ELSE
    LET override == _getEntityOverrideInfo(config, activeEntities[i].entity_id)
    IN  IF override = NULL \/ override.source # "selected"
          THEN [acc EXCEPT !.allSelected = FALSE]
        ELSE IF acc.firstValue = "null"
          THEN ScanIgnoreValue(config, activeEntities, i + 1,
                               [acc EXCEPT !.firstValue = override.expose])
        ELSE ScanIgnoreValue(config, activeEntities, i + 1, acc)

\* The scan of _recalculateDeviceState: entities i..Len of activeEntities,
\* carrying allSelected / allSameValue / firstValue; `break` ends the scan.
RECURSIVE ScanActive(_, _, _, _)
ScanActive(config, activeEntities, i, acc) ==
  IF i > Len(activeEntities) THEN acc
  ELSE
    LET override == _getEntityOverrideInfo(config, activeEntities[i].entity_id)
    IN  IF override = NULL \/ override.source # "selected"
          THEN [acc EXCEPT !.allSelected = FALSE]
        ELSE IF acc.firstValue = "null"
          THEN ScanActive(config, activeEntities, i + 1,
                          [acc EXCEPT !.firstValue = override.expose])
        ELSE IF override.expose # acc.firstValue
          THEN [acc EXCEPT !.allSameValue = FALSE]
        ELSE ScanActive(config, activeEntities, i + 1, acc)

\* _recalculateDeviceState that never removes an implied device override
RecalculateKeepImplied(config, deviceId) ==
  LET activeEntities == ActiveEntities(config, deviceId)
      deviceOverride == _getDeviceOverrideInfo(config, deviceId)
      scan == ScanActive(config, activeEntities, 1,
                         [allSelected |-> TRUE, allSameValue |-> TRUE,
                          firstValue |-> "null"])
  IN  IF Len(activeEntities) = 0 THEN config
      ELSE IF SourceOf(deviceOverride) = "selected" THEN config
      ELSE IF scan.allSelected /\ scan.allSameValue /\ scan.firstValue # "null"
        THEN [config EXCEPT !.device_overrides[deviceId] =
                              OverrideObject(scan.firstValue, "implied")]
      ELSE config

\* _recalculateDeviceState without the early return for a selected device
RecalculateSelectedToo(config, deviceId) ==
  LET activeEntities == ActiveEntities(config, deviceId)
      deviceOverride == _getDeviceOverrideInfo(config, deviceId)
      scan == ScanActive(config, activeEntities, 1,
                         [allSelected |-> TRUE, allSameValue |-> TRUE,
                          firstValue |-> "null"])
  IN  IF Len(activeEntities) = 0 THEN config
      ELSE IF scan.allSelected /\ scan.allSameValue /\ scan.firstValue # "null"
        THEN [config EXCEPT !.device_overrides[deviceId] =
                              OverrideObject(scan.firstValue, "implied")]
      ELSE IF SourceOf(deviceOverride) = "implied"
        THEN [config EXCEPT !.device_overrides[deviceId] = Absent]
      ELSE config

\* _recalculateDeviceState without the early return for a device that has
\* no non-filtered entity
RecalculateNoEmptyGuard(config, deviceId) ==
  LET activeEntities == ActiveEntities(config, deviceId)
      deviceOverride == _getDeviceOverrideInfo(config, deviceId)
      scan == ScanActive(config, activeEntities, 1,
                         [allSelected |-> TRUE, allSameValue |-> TRUE,
                          firstValue |-> "null"])
  IN  IF SourceOf(deviceOverride) = "selected" THEN config
      ELSE IF scan.allSelected /\ scan.allSameValue /\ scan.firstValue # "null"
        THEN [config EXCEPT !.device_overrides[deviceId] =
                              OverrideObject(scan.firstValue, "implied")]
      ELSE IF SourceOf(deviceOverride) = "implied"
        THEN [config EXCEPT !.device_overrides[deviceId] = Absent]
      ELSE config

\* Upward: recompute the device from its non-filtered entities.
_recalculateDeviceState(config, deviceId) ==
  LET activeEntities == ActiveEntities(config, deviceId)
      deviceOverride == _getDeviceOverrideInfo(config, deviceId)
      scan == ScanActive(config, activeEntities, 1,
                         [allSelected |-> TRUE, allSameValue |-> TRUE,
                          firstValue |-> "null"])
  IN  IF Len(activeEntities) = 0 THEN config
      ELSE IF SourceOf(deviceOverride) = "selected" THEN config
      ELSE IF scan.allSelected /\ scan.allSameValue /\ scan.firstValue # "null"
        THEN [config EXCEPT !.device_overrides[deviceId] =
                              OverrideObject(scan.firstValue, "implied")]
      ELSE IF SourceOf(deviceOverride) = "implied"
        THEN [config EXCEPT !.device_overrides[deviceId] = Absent]
      ELSE config

\* -------------------------------------------------------------- setters
\* the owning device of entityId: this._entities.find(...)?.device_id
DeviceIdOf(entityId) ==
  LET found == SelectSeq(_entities, LAMBDA e : e.entity_id = entityId)
  IN  IF Len(found) = 0 THEN 0 ELSE found[1].device_id

\* _setEntityOverride without the recompute of the owning device
SetEntityOverrideNoRecalc(config, entityId, expose, source) ==
  [config EXCEPT !.entity_overrides[entityId] =
     IF expose = "null" THEN Absent ELSE OverrideObject(expose, source)]

\* _setEntityOverride that also propagates the written value from the
\* owning device down to its entities
SetEntityOverrideThenPropagate(config, entityId, expose, source) ==
  LET written ==
        [config EXCEPT !.entity_overrides[entityId] =
           IF expose = "null" THEN Absent ELSE OverrideObject(expose, source)]
  IN  IF DeviceIdOf(entityId) # 0
        THEN _propagateDeviceToEntities(
               _recalculateDeviceState(written, DeviceIdOf(entityId)),
               DeviceIdOf(entityId), expose, source)
        ELSE written

_setEntityOverride(config, entityId, expose, source) ==
  LET written ==
        [config EXCEPT !.entity_overrides[entityId] =
           IF expose = "null" THEN Absent ELSE OverrideObject(expose, source)]
  IN  IF DeviceIdOf(entityId) # 0
        THEN _recalculateDeviceState(written, DeviceIdOf(entityId))
        ELSE written

\* _setDeviceOverride without the downward propagation
SetDeviceOverrideNoPropagate(config, deviceId, expose, source) ==
  [config EXCEPT !.device_overrides[deviceId] =
     IF expose = "null" THEN Absent ELSE OverrideObject(expose, source)]

\* _setDeviceOverride that recomputes the device after the propagation
SetDeviceOverrideRecalc(config, deviceId, expose, source) ==
  LET written ==
        [config EXCEPT !.device_overrides[deviceId] =
           IF expose = "null" THEN Absent ELSE OverrideObject(expose, source)]
  IN  _recalculateDeviceState(
        _propagateDeviceToEntities(written, deviceId, expose, source), deviceId)

_setDeviceOverride(config, deviceId, expose, source) ==
  LET written ==
        [config EXCEPT !.device_overrides[deviceId] =
           IF expose = "null" THEN Absent ELSE OverrideObject(expose, source)]
  IN  _propagateDeviceToEntities(written, deviceId, expose, source)

\* _handleEntityButtonClick without the toggle-off branch
HandleEntityButtonClickNoToggle(config, entityId, targetExpose) ==
  _setEntityOverride(config, entityId, targetExpose, "selected")

_handleEntityButtonClick(config, entityId, targetExpose) ==
  LET currentOverride == _getEntityOverrideInfo(config, entityId)
  IN  IF ExposeOf(currentOverride) = targetExpose
         /\ SourceOf(currentOverride) = "selected"
        THEN _setEntityOverride(config, entityId, "null", "selected")
        ELSE _setEntityOverride(config, entityId, targetExpose, "selected")

\* _handleDeviceButtonClick whose toggle-off only deletes the device's
\* override
HandleDeviceButtonClickBareToggleOff(config, deviceId, targetExpose) ==
  LET currentOverride == _getDeviceOverrideInfo(config, deviceId)
  IN  IF ExposeOf(currentOverride) = targetExpose
         /\ SourceOf(currentOverride) = "selected"
        THEN [config EXCEPT !.device_overrides[deviceId] = Absent]
        ELSE _setDeviceOverride(config, deviceId, targetExpose, "selected")

_handleDeviceButtonClick(config, deviceId, targetExpose) ==
  LET currentOverride == _getDeviceOverrideInfo(config, deviceId)
  IN  IF ExposeOf(currentOverride) = targetExpose
         /\ SourceOf(currentOverride) = "selected"
        THEN _setDeviceOverride(config, deviceId, "null", "selected")
        ELSE _setDeviceOverride(config, deviceId, targetExpose, "selected")

\* _updatePendingConfig(path, value): path is the dotted path split at the
\* dots.  Every path the panel uses has one or two keys, and the first key
\* of a two-key path (bulk_rules, settings) is an object of every loaded
\* config, so the `obj[keys[i]] = {}` repair never runs.  The handler also
\* sets _hasChanges, which the actions do.
_updatePendingConfig(config, path, value) ==
  IF Len(path) = 1
    THEN [config EXCEPT ![path[1]] = value]
    ELSE [config EXCEPT ![path[1]][path[2]] = value]

\* _toggleEntityFiltered that also recomputes the owning device
ToggleEntityFilteredRecalc(config, entityId) ==
  LET toggled ==
        _updatePendingConfig(config, <<"filtered_entities">>,
          IF entityId \in config.filtered_entities
            THEN config.filtered_entities \ {entityId}
            ELSE config.filtered_entities \cup {entityId})
  IN  IF DeviceIdOf(entityId) # 0
        THEN _recalculateDeviceState(toggled, DeviceIdOf(entityId))
        ELSE toggled

_toggleEntityFiltered(config, entityId) ==
  _updatePendingConfig(config, <<"filtered_entities">>,
    IF entityId \in config.filtered_entities
      THEN config.filtered_entities \ {entityId}
      ELSE config.filtered_entities \cup {entityId})

_toggleDeviceFiltered(config, deviceId) ==
  _updatePendingConfig(config, <<"filtered_devices">>,
    IF deviceId \in config.filtered_devices
      THEN config.filtered_devices \ {deviceId}
      ELSE config.filtered_devices \cup {deviceId})

\* ---------------------------------------------------------------- state
\* A loaded configuration without overrides; the stored filter lists are
\* whatever an earlier session saved.
EmptyConfig(filteredEntities, filteredDevices) ==
  [bulk_rules |-> [expose_domains |-> {}, exclude_areas |-> {},
                   exclude_patterns |-> <<>>],
   entity_overrides |-> [e \in EntityIds |-> Absent],
   device_overrides |-> [d \in DeviceIds |-> Absent],
   entity_config |-> [e \in EntityIds |-> Absent],
   filtered_entities |-> filteredEntities,
   filtered_devices |-> filteredDevices,
   settings |-> [auto_aliases |-> "undefined", backups |-> "undefined"]]

\* the panel, the backend and the requests as the specifications of the
\* editor, the getters and the resolver keep them: loaded, nothing in
\* flight; the persisted copies, which their actions never read, are left
\* out
PanelAtRest ==
  /\ _config = NULL
  /\ _activeTab = "devices_entities"
  /\ _showPreview = FALSE /\ _showUnsavedDialog = FALSE
  /\ _pendingNavigation = "null"
  /\ _saving = FALSE /\ _loading = FALSE
  /\ _error = "null" /\ _preview = NULL
  /\ _migrationNeeded = FALSE /\ _editingEntity = 0
  /\ topologyLoaded = TRUE
  /\ serverConfig = NULL /\ serverMigration = FALSE
  /\ loadCall = "none" /\ saveCall = NULL /\ previewCalls = <<>>
  /\ edits = 0 /\ requests = 0 /\ previewOf = NULL /\ persisted = NULL

Init ==
  /\ \E fe \in SUBSET EntityIds, fd \in SUBSET DeviceIds :
       _pendingConfig = EmptyConfig(fe, fd)
  /\ _hasChanges = FALSE
  /\ lastAction = [op |-> "load", id |-> 0, expose |-> "null"]
  /\ filtersTouched = FALSE
  /\ returned = [entity |-> NoInfo, device |-> NoInfo]
  /\ decisions = [e \in EntityIds |-> NotResolved]
  /\ PanelAtRest

\* ------------------------------------------------------------- actions
\* click on an entity's Expose / Exclude button
ClickEntityButton(entityId, targetExpose) ==
  /\ _pendingConfig' = _handleEntityButtonClick(_pendingConfig, entityId, targetExpose)
  /\ _hasChanges' = TRUE
  /\ lastAction' = [op |-> "entity", id |-> entityId, expose |-> targetExpose]
  /\ UNCHANGED <<filtersTouched, outsideEditor>>

\* click on a device's Expose All / Exclude All button (disabled while the
\* device has no non-filtered entity)
ClickDeviceButton(deviceId, targetExpose) ==
  /\ _getNonFilteredEntityCount(_pendingConfig, deviceId) # 0
  /\ _pendingConfig' = _handleDeviceButtonClick(_pendingConfig, deviceId, targetExpose)
  /\ _hasChanges' = TRUE
  /\ lastAction' = [op |-> "device", id |-> deviceId, expose |-> targetExpose]
  /\ UNCHANGED <<filtersTouched, outsideEditor>>

\* click on an entity's filter button
ClickEntityFilter(entityId) ==
  /\ _pendingConfig' = _toggleEntityFiltered(_pendingConfig, entityId)
  /\ _hasChanges' = TRUE
  /\ lastAction' = [op |-> "filter_entity", id |-> entityId, expose |-> "null"]
  /\ filtersTouched' = TRUE
  /\ UNCHANGED outsideEditor

\* click on a device's filter button
ClickDeviceFilter(deviceId) ==
  /\ _pendingConfig' = _toggleDeviceFiltered(_pendingConfig, deviceId)
  /\ _hasChanges' = TRUE
  /\ lastAction' = [op |-> "filter_device", id |-> deviceId, expose |-> "null"]
  /\ filtersTouched' = TRUE
  /\ UNCHANGED outsideEditor

Next ==
  \/ \E e \in EntityIds, v \in ExposeValues : ClickEntityButton(e, v)
  \/ \E d \in DeviceIds, v \in ExposeValues : ClickDeviceButton(d, v)
  \/ \E e \in EntityIds : ClickEntityFilter(e)
  \/ \E d \in DeviceIds : ClickDeviceFilter(d)

Spec == Init /\ [][Next]_vars

\* ------------------------------------------------- the getters on any slot
\* The state after _loadData of a stored config whose override slots of
\* entity 1 and of device 1 hold any JSON value.
InitNormalize ==
  /\ \E x \in StoredEncodings, y \in StoredEncodings :
       _pendingConfig =
         [EmptyConfig({}, {}) EXCEPT !.entity_overrides[1] = x,
                                     !.device_overrides[1] = y]
  /\ _hasChanges = FALSE
  /\ lastAction = [op |-> "load", id |-> 0, expose |-> "null"]
  /\ filtersTouched = FALSE
  /\ returned = [entity |-> NoInfo, device |-> NoInfo]
  /\ decisions = [e \in EntityIds |-> NotResolved]
  /\ PanelAtRest

\* a call of this._getEntityOverrideInfo(entityId)
GetEntityOverrideInfo(entityId) ==
  /\ returned' = [returned EXCEPT !.entity = _getEntityOverrideInfo(_pendingConfig, entityId)]
  /\ UNCHANGED <<editorVars, resolveVars, panelVars, serverVars, callVars,
                 historyVars>>

\* a call of this._getDeviceOverrideInfo(deviceId)
GetDeviceOverrideInfo(deviceId) ==
  /\ returned' = [returned EXCEPT !.device = _getDeviceOverrideInfo(_pendingConfig, deviceId)]
  /\ UNCHANGED <<editorVars, resolveVars, panelVars, serverVars, callVars,
                 historyVars>>

NextNormalize ==
  \/ GetEntityOverrideInfo(1)
  \/ GetDeviceOverrideInfo(1)

SpecNormalize == InitNormalize /\ [][NextNormalize]_vars

\* ------------------------------------------------------ decision resolver
\* The identifier, domain and area of entity i: light.a and light.b of
\* device 1, then sensor.a, sensor.b, ...; odd entities are in the garage.
\* Identifiers are sequences of characters.
EntityDomain(entityId) == IF entityId <= 2 THEN "l" ELSE "s"
EntityArea(entityId) == IF entityId % 2 = 1 THEN "g" ELSE "k"
EntityName(entityId) ==
  <<EntityDomain(entityId), ".", IF entityId % 2 = 1 THEN "a" ELSE "b">>

\* index of the "]" that closes the bracket class opening at pattern[1]
\* (a "]" right after "[" or "[!" is a member), 0 if there is none
ClassEnd(pattern) ==
  LET first == IF Len(pattern) >= 2 /\ pattern[2] = "!" THEN 4 ELSE 3
      closing == {j \in first..Len(pattern) : pattern[j] = "]"}
  IN  IF closing = {} THEN 0
      ELSE CHOOSE j \in closing : \A k \in closing : j <= k

\* matches(pattern, entityId): anchored, case-sensitive glob match
RECURSIVE matches(_, _)
matches(pattern, name) ==
  IF pattern = <<>> THEN name = <<>>
  ELSE IF Head(pattern) = "*"
    THEN \/ matches(Tail(pattern), name)
         \/ name # <<>> /\ matches(pattern, Tail(name))
  ELSE IF name = <<>> THEN FALSE
  ELSE IF Head(pattern) = "?" THEN matches(Tail(pattern), Tail(name))
  ELSE IF Head(pattern) = "[" /\ ClassEnd(pattern) # 0
    THEN LET close == ClassEnd(pattern)
             negated == pattern[2] = "!"
             members == {pattern[i] :
                           i \in (IF negated THEN 3 ELSE 2)..(close - 1)}
         IN  /\ (Head(name) \in members) # negated
             /\ matches(SubSeq(pattern, close + 1, Len(pattern)), Tail(name))
  ELSE Head(pattern) = Head(name) /\ matches(Tail(pattern), Tail(name))

\* an override's verdict: its expose value, with the tier's reason if false
Verdict(override, reason) ==
  IF override.expose = "true" THEN Decision("exposed", "none")
  ELSE Decision("excluded", reason)

\* resolve with the domain inclusion tested before the exclusions
ResolveDomainFirst(config, entityId) ==
  LET entityOverride == NormalizeOverride(config.entity_overrides[entityId])
      deviceId == DeviceIdOf(entityId)
      deviceOverride ==
        IF deviceId = 0 THEN NULL
        ELSE NormalizeOverride(config.device_overrides[deviceId])
      patterns == config.bulk_rules.exclude_patterns
  IN  IF entityOverride # NULL THEN Verdict(entityOverride, "entity_override")
      ELSE IF deviceOverride # NULL
        THEN Verdict(deviceOverride, "device_override")
      ELSE IF EntityDomain(entityId) \in config.bulk_rules.expose_domains
        THEN Decision("exposed", "none")
      ELSE IF \E i \in 1..Len(patterns) : matches(patterns[i], EntityName(entityId))
        THEN Decision("excluded", "pattern")
      ELSE IF EntityArea(entityId) \in config.bulk_rules.exclude_areas
        THEN Decision("excluded", "area")
      ELSE Decision("unset", "none")

\* resolve(topology, config) for one entity: the first tier that applies
resolve(config, entityId) ==
  LET entityOverride == NormalizeOverride(config.entity_overrides[entityId])
      deviceId == DeviceIdOf(entityId)
      deviceOverride ==
        IF deviceId = 0 THEN NULL
        ELSE NormalizeOverride(config.device_overrides[deviceId])
      patterns == config.bulk_rules.exclude_patterns
  IN  IF entityOverride # NULL THEN Verdict(entityOverride, "entity_override")
      ELSE IF deviceOverride # NULL
        THEN Verdict(deviceOverride, "device_override")
      ELSE IF \E i \in 1..Len(patterns) : matches(patterns[i], EntityName(entityId))
        THEN Decision("excluded", "pattern")
      ELSE IF EntityArea(entityId) \in config.bulk_rules.exclude_areas
        THEN Decision("excluded", "area")
      ELSE IF EntityDomain(entityId) \in config.bulk_rules.expose_domains
        THEN Decision("exposed", "none")
      ELSE Decision("unset", "none")

\* the values the fields of a config under resolution are drawn from
OverrideValues ==
  {Absent} \cup {OverrideObject(b, src) : b \in ExposeValues,
                                          src \in {"selected", "implied"}}
PatternPool ==
  {<<"l", ".", "a">>, <<"l", ".", "*">>, <<"?", ".", "a">>,
   <<"*", "b">>, <<"s", ".", "[", "!", "b", "]">>}
PatternLists == UNION {[1..n -> PatternPool] : n \in 0..MaxPatterns}

\* a compute_preview request has arrived with any config
InitResolve ==
  /\ \E eo \in [EntityIds -> OverrideValues],
        dov \in [DeviceIds -> OverrideValues],
        patterns \in PatternLists,
        areas \in {{}, {"g"}},
        domains \in SUBSET {"l", "s"} :
       _pendingConfig =
         [EmptyConfig({}, {}) EXCEPT
            !.entity_overrides = eo,
            !.device_overrides = dov,
            !.bulk_rules = [expose_domains |-> domains,
                            exclude_areas |-> areas,
                            exclude_patterns |-> patterns]]
  /\ _hasChanges = FALSE
  /\ lastAction = [op |-> "load", id |-> 0, expose |-> "null"]
  /\ filtersTouched = FALSE
  /\ returned = [entity |-> NoInfo, device |-> NoInfo]
  /\ decisions = [e \in EntityIds |-> NotResolved]
  /\ PanelAtRest

\* the resolution pass of the request
Resolve ==
  /\ decisions' = [e \in EntityIds |-> resolve(_pendingConfig, e)]
  /\ UNCHANGED <<editorVars, normalizeVars, panelVars, serverVars, callVars,
                 historyVars>>

NextResolve == Resolve

SpecResolve == InitResolve /\ [][NextResolve]_vars

\* ------------------------------------------------------------- the panel
\* the tabs render() offers
Tabs == {"devices_entities", "bulk_rules", "settings"}

\* the items the edit operations of the panel act on
EditExpose == {"true"}
EditSettings == {"auto_aliases"}
EditEntities == {1}
EditDevices == {1}
EditDomains == {"l"}
EditAreas == {"g"}
EditPatterns == {<<>>, <<<<"l", ".", "*">>>>}

\* the entity_config entry _saveEntityConfig writes for a draft with one
\* alias, and the one _applyAutoAliases writes from its suggestions
ManualEntityConfig == [kind |-> "object", aliases |-> "manual"]
AutoEntityConfig == [kind |-> "object", aliases |-> "suggestions"]

\* the backend's answer to compute_preview: the entities the resolver
\* exposes
ComputePreviewResult(config) ==
  [exposed |-> {e \in EntityIds : resolve(config, e).decision = "exposed"}]

\* _applyAutoAliases writing its suggestions for every exposed entity
ApplyAutoAliasesOverwrite(config, preview) ==
  IF config.settings.auto_aliases = "false" THEN [config |-> config, same |-> TRUE]
  ELSE IF preview.exposed = {} THEN [config |-> config, same |-> TRUE]
  ELSE [config |->
          [config EXCEPT !.entity_config =
             [e \in EntityIds |->
                IF e \in preview.exposed THEN AutoEntityConfig
                ELSE config.entity_config[e]]],
        same |-> FALSE]

\* _applyAutoAliases that does not read settings.auto_aliases
ApplyAutoAliasesIgnoreSetting(config, preview) ==
  IF preview.exposed = {} THEN [config |-> config, same |-> TRUE]
  ELSE [config |->
          [config EXCEPT !.entity_config =
             [e \in EntityIds |->
                IF e \in preview.exposed /\ config.entity_config[e] = Absent
                  THEN AutoEntityConfig
                  ELSE config.entity_config[e]]],
        same |-> FALSE]

\* _applyAutoAliases(config): the config to save, and whether it is the
\* object passed in (auto_aliases off, or nothing exposed) or a clone
_applyAutoAliases(config, preview) ==
  IF config.settings.auto_aliases = "false" THEN [config |-> config, same |-> TRUE]
  ELSE IF preview.exposed = {} THEN [config |-> config, same |-> TRUE]
  ELSE [config |->
          [config EXCEPT !.entity_config =
             [e \in EntityIds |->
                IF e \in preview.exposed /\ config.entity_config[e] = Absent
                  THEN AutoEntityConfig
                  ELSE config.entity_config[e]]],
        same |-> FALSE]

\* _toggleDomain and _toggleArea
_toggleDomain(config, domain) ==
  _updatePendingConfig(config, <<"bulk_rules", "expose_domains">>,
    IF domain \in config.bulk_rules.expose_domains
      THEN config.bulk_rules.expose_domains \ {domain}
      ELSE config.bulk_rules.expose_domains \cup {domain})

_toggleArea(config, areaId) ==
  _updatePendingConfig(config, <<"bulk_rules", "exclude_areas">>,
    IF areaId \in config.bulk_rules.exclude_areas
      THEN config.bulk_rules.exclude_areas \ {areaId}
      ELSE config.bulk_rules.exclude_areas \cup {areaId})

\* the change handler of a settings checkbox, shown checked unless the
\* setting is false: e.target.checked is the opposite of what was shown
ToggleSetting(config, key) ==
  _updatePendingConfig(config, <<"settings", key>>,
    IF config.settings[key] = "false" THEN "true" ELSE "false")

\* _saveEntityConfig for a draft that adds an alias to an entity without
\* entity_config, or clears the draft of one that has it
_saveEntityConfig(config, entityId) ==
  _updatePendingConfig(config, <<"entity_config">>,
    [config.entity_config EXCEPT ![entityId] =
       IF @ = Absent THEN ManualEntityConfig ELSE Absent])

\* what render() shows: nothing but "Loading..." while _loading; the
\* dialogs over the page, the last rendered on top
TopDialog ==
  IF _loading THEN "loading"
  ELSE IF _editingEntity # 0 THEN "entity_config"
  ELSE IF _showUnsavedDialog THEN "unsaved"
  ELSE IF _showPreview THEN "preview"
  ELSE "none"
PageActive == TopDialog = "none" /\ ~_migrationNeeded
TabShown(tab) == PageActive /\ _pendingConfig # NULL /\ _activeTab = tab

\* JSON.parse(JSON.stringify(this._config)) gives the pending config a new
\* object: a configToSave in flight is no longer the pending object
Unalias(call) ==
  IF call = NULL THEN NULL ELSE [call EXCEPT !.aliased = FALSE]

\* the start of _loadData, up to its first await
StartLoadData ==
  /\ _loading' = TRUE
  /\ _error' = "null"
  /\ loadCall' = "get_config"

\* the state after construction and connectedCallback: the first
\* _loadData is waiting for get_config; the backend stores any of two
\* configs and may have a migration to offer
InitPanel ==
  /\ _pendingConfig = NULL /\ _config = NULL
  /\ _hasChanges = FALSE
  /\ _activeTab = "devices_entities"
  /\ _showPreview = FALSE /\ _showUnsavedDialog = FALSE
  /\ _pendingNavigation = "null"
  /\ _saving = FALSE /\ _loading = TRUE
  /\ _error = "null" /\ _preview = NULL
  /\ _migrationNeeded = FALSE /\ _editingEntity = 0
  /\ topologyLoaded = FALSE
  /\ \E autoAliases \in {"undefined", "false"} :
       serverConfig = [EmptyConfig({}, {}) EXCEPT !.settings.auto_aliases = autoAliases]
  /\ serverMigration \in BOOLEAN
  /\ loadCall = "get_config" /\ saveCall = NULL /\ previewCalls = <<>>
  /\ edits = 0 /\ requests = 0 /\ previewOf = NULL /\ persisted = NULL
  /\ lastAction = [op |-> "connectedCallback"]
  /\ filtersTouched = FALSE
  /\ returned = [entity |-> NoInfo, device |-> NoInfo]
  /\ decisions = [e \in EntityIds |-> NotResolved]

\* ---- _loadData
\* get_config answers: the rest of the try block up to the second await
GetConfigSucceeds ==
  /\ loadCall = "get_config"
  /\ _config' = serverConfig
  /\ _pendingConfig' = serverConfig
  /\ _migrationNeeded' = serverMigration
  /\ loadCall' = "get_entities"
  /\ saveCall' = Unalias(saveCall)
  /\ persisted' = serverConfig
  /\ lastAction' = [op |-> "other"]
  /\ UNCHANGED <<_hasChanges, filtersTouched, normalizeVars, resolveVars,
                 _activeTab, _showPreview, _showUnsavedDialog,
                 _pendingNavigation, _saving, _loading, _error, _preview,
                 _editingEntity, topologyLoaded, serverVars, previewCalls,
                 edits, requests, previewOf>>

\* get_entities answers; _loadData ends, and so does a _saveConfig that
\* awaited it
GetEntitiesSucceeds ==
  /\ loadCall = "get_entities"
  /\ topologyLoaded' = TRUE
  /\ _loading' = FALSE
  /\ _saving' = FALSE
  /\ loadCall' = "none"
  /\ lastAction' = [op |-> "other"]
  /\ UNCHANGED <<_pendingConfig, _hasChanges, filtersTouched, normalizeVars,
                 resolveVars, _config, _activeTab, _showPreview,
                 _showUnsavedDialog, _pendingNavigation, _error, _preview,
                 _migrationNeeded, _editingEntity, serverVars, saveCall,
                 previewCalls, historyVars>>

\* either request of _loadData fails: the catch block, then the end
LoadDataFails ==
  /\ loadCall \in {"get_config", "get_entities"}
  /\ _error' = "error"
  /\ _loading' = FALSE
  /\ _saving' = FALSE
  /\ loadCall' = "none"
  /\ lastAction' = [op |-> "other"]
  /\ UNCHANGED <<_pendingConfig, _hasChanges, filtersTouched, normalizeVars,
                 resolveVars, _config, _activeTab, _showPreview,
                 _showUnsavedDialog, _pendingNavigation, _preview,
                 _migrationNeeded, _editingEntity, topologyLoaded, serverVars,
                 saveCall, previewCalls, historyVars>>

\* ---- _handleMigration
\* click on Import Existing / Skip & Start Fresh
HandleMigration(action) ==
  /\ TopDialog = "none" /\ _migrationNeeded
  /\ _loading' = TRUE
  /\ loadCall' = action
  /\ lastAction' = [op |-> "other"]
  /\ UNCHANGED <<_pendingConfig, _hasChanges, filtersTouched, normalizeVars,
                 resolveVars, _config, _activeTab, _showPreview,
                 _showUnsavedDialog, _pendingNavigation, _saving, _error,
                 _preview, _migrationNeeded, _editingEntity, topologyLoaded,
                 serverVars, saveCall, previewCalls, historyVars>>

\* handle_migration answers: the backend has imported the existing
\* entities as overrides, or not, and offers no migration any more;
\* _loadData starts
HandleMigrationSucceeds ==
  /\ loadCall \in {"import", "skip"}
  /\ serverMigration' = FALSE
  /\ serverConfig' =
       IF loadCall = "import"
         THEN [serverConfig EXCEPT
                 !.entity_overrides[1] = OverrideObject("true", "selected")]
         ELSE serverConfig
  /\ StartLoadData
  /\ lastAction' = [op |-> "other"]
  /\ UNCHANGED <<_pendingConfig, _hasChanges, filtersTouched, normalizeVars,
                 resolveVars, _config, _activeTab, _showPreview,
                 _showUnsavedDialog, _pendingNavigation, _saving, _preview,
                 _migrationNeeded, _editingEntity, topologyLoaded, saveCall,
                 previewCalls, historyVars>>

\* a rejected handle_migration whose catch block does not clear _loading
HandleMigrationFailsKeepsLoading ==
  /\ loadCall \in {"import", "skip"}
  /\ _error' = "error"
  /\ loadCall' = "none"
  /\ lastAction' = [op |-> "other"]
  /\ UNCHANGED <<_pendingConfig, _hasChanges, filtersTouched, normalizeVars,
                 resolveVars, _config, _activeTab, _showPreview,
                 _showUnsavedDialog, _pendingNavigation, _saving, _loading,
                 _preview, _migrationNeeded, _editingEntity, topologyLoaded,
                 serverVars, saveCall, previewCalls, historyVars>>

\* handle_migration is rejected: the catch block of _handleMigration
HandleMigrationFails ==
  /\ loadCall \in {"import", "skip"}
  /\ _error' = "error"
  /\ _loading' = FALSE
  /\ loadCall' = "none"
  /\ lastAction' = [op |-> "other"]
  /\ UNCHANGED <<_pendingConfig, _hasChanges, filtersTouched, normalizeVars,
                 resolveVars, _config, _activeTab, _showPreview,
                 _showUnsavedDialog, _pendingNavigation, _saving, _preview,
                 _migrationNeeded, _editingEntity, topologyLoaded, serverVars,
                 saveCall, previewCalls, historyVars>>

\* ---- edit operations
\* an edit operation that sends the config to save_config at once
PanelEditAndSave(op, config) ==
  /\ edits < MaxEdits
  /\ _pendingConfig' = config
  /\ _hasChanges' = TRUE
  /\ edits' = edits + 1
  /\ saveCall' = [sent |-> config, obj |-> config, aliased |-> TRUE]
  /\ lastAction' = [op |-> op, edit |-> TRUE]
  /\ UNCHANGED <<filtersTouched, normalizeVars, resolveVars, _config,
                 _activeTab, _showPreview, _showUnsavedDialog,
                 _pendingNavigation, _saving, _loading, _error, _preview,
                 _migrationNeeded, topologyLoaded, serverVars, loadCall,
                 previewCalls, requests, previewOf, persisted>>

\* What every edit operation does to the panel: the pending config object
\* is changed in place and _hasChanges is set.  A configToSave that
\* _applyAutoAliases returned as the pending object itself (saveCall.aliased)
\* is that same object and changes with it.
PanelEdit(op, config) ==
  /\ edits < MaxEdits
  /\ _pendingConfig' = config
  /\ _hasChanges' = TRUE
  /\ edits' = edits + 1
  /\ saveCall' = IF saveCall # NULL /\ saveCall.aliased
                   THEN [saveCall EXCEPT !.obj = config]
                   ELSE saveCall
  /\ lastAction' = [op |-> op, edit |-> TRUE]
  /\ UNCHANGED <<filtersTouched, normalizeVars, resolveVars, _config,
                 _activeTab, _showPreview, _showUnsavedDialog,
                 _pendingNavigation, _saving, _loading, _error, _preview,
                 _migrationNeeded, topologyLoaded, serverVars, loadCall,
                 previewCalls, requests, previewOf, persisted>>

PanelEntityButton(entityId, targetExpose) ==
  /\ TabShown("devices_entities") /\ topologyLoaded
  /\ PanelEdit("entity",
       _handleEntityButtonClick(_pendingConfig, entityId, targetExpose))
  /\ UNCHANGED _editingEntity

PanelDeviceButton(deviceId, targetExpose) ==
  /\ TabShown("devices_entities") /\ topologyLoaded
  /\ _getNonFilteredEntityCount(_pendingConfig, deviceId) # 0
  /\ PanelEdit("device",
       _handleDeviceButtonClick(_pendingConfig, deviceId, targetExpose))
  /\ UNCHANGED _editingEntity

PanelEntityFilter(entityId) ==
  /\ TabShown("devices_entities") /\ topologyLoaded
  /\ PanelEdit("filter_entity", _toggleEntityFiltered(_pendingConfig, entityId))
  /\ UNCHANGED _editingEntity

PanelDeviceFilter(deviceId) ==
  /\ TabShown("devices_entities") /\ topologyLoaded
  /\ PanelEdit("filter_device", _toggleDeviceFiltered(_pendingConfig, deviceId))
  /\ UNCHANGED _editingEntity

\* click on a domain chip / an area chip of the Bulk Rules tab
ToggleDomain(domain) ==
  /\ TabShown("bulk_rules") /\ topologyLoaded
  /\ PanelEdit("domain", _toggleDomain(_pendingConfig, domain))
  /\ UNCHANGED _editingEntity

ToggleArea(areaId) ==
  /\ TabShown("bulk_rules") /\ topologyLoaded
  /\ PanelEdit("area", _toggleArea(_pendingConfig, areaId))
  /\ UNCHANGED _editingEntity

\* input in the Exclude Patterns textarea
InputPatterns(patterns) ==
  /\ TabShown("bulk_rules")
  /\ patterns # _pendingConfig.bulk_rules.exclude_patterns
  /\ PanelEdit("patterns",
       _updatePendingConfig(_pendingConfig, <<"bulk_rules", "exclude_patterns">>,
                            patterns))
  /\ UNCHANGED _editingEntity

\* change of a checkbox of the Settings tab
ChangeSetting(key) ==
  /\ TabShown("settings")
  /\ PanelEdit("settings", ToggleSetting(_pendingConfig, key))
  /\ UNCHANGED _editingEntity

\* the entity config dialog: open, cancel, Save Configuration
OpenEntityConfigDialog(entityId) ==
  /\ TabShown("devices_entities") /\ topologyLoaded
  /\ edits < MaxEdits
  /\ _editingEntity' = entityId
  /\ lastAction' = [op |-> "other"]
  /\ UNCHANGED <<_pendingConfig, _hasChanges, filtersTouched, normalizeVars,
                 resolveVars, _config, _activeTab, _showPreview,
                 _showUnsavedDialog, _pendingNavigation, _saving, _loading,
                 _error, _preview, _migrationNeeded, topologyLoaded,
                 serverVars, callVars, historyVars>>

CloseEntityConfigDialog ==
  /\ TopDialog = "entity_config"
  /\ _editingEntity' = 0
  /\ lastAction' = [op |-> "other"]
  /\ UNCHANGED <<_pendingConfig, _hasChanges, filtersTouched, normalizeVars,
                 resolveVars, _config, _activeTab, _showPreview,
                 _showUnsavedDialog, _pendingNavigation, _saving, _loading,
                 _error, _preview, _migrationNeeded, topologyLoaded,
                 serverVars, callVars, historyVars>>

SaveEntityConfig ==
  /\ TopDialog = "entity_config"
  /\ PanelEdit("entity_config", _saveEntityConfig(_pendingConfig, _editingEntity))
  /\ _editingEntity' = 0

\* ---- navigation
\* _setTab without the unsaved-changes test
SetTabUnguarded(tab) ==
  /\ PageActive
  /\ _activeTab' = tab
  /\ lastAction' = [op |-> "setTab", tab |-> tab]
  /\ UNCHANGED <<_pendingConfig, _hasChanges, filtersTouched, normalizeVars,
                 resolveVars, _config, _showPreview, _showUnsavedDialog,
                 _pendingNavigation, _saving, _loading, _error, _preview,
                 _migrationNeeded, _editingEntity, topologyLoaded, serverVars,
                 callVars, historyVars>>

\* _setTab(tab), from a click on a tab
SetTab(tab) ==
  /\ PageActive
  /\ IF _migrationNeeded /\ tab # "migration"
       THEN UNCHANGED <<_activeTab, _pendingNavigation, _showUnsavedDialog>>
     ELSE IF _hasChanges /\ tab # _activeTab
       THEN /\ _pendingNavigation' = tab
            /\ _showUnsavedDialog' = TRUE
            /\ UNCHANGED _activeTab
     ELSE /\ _activeTab' = tab
          /\ UNCHANGED <<_pendingNavigation, _showUnsavedDialog>>
  /\ lastAction' = [op |-> "setTab", tab |-> tab]
  /\ UNCHANGED <<_pendingConfig, _hasChanges, filtersTouched, normalizeVars,
                 resolveVars, _config, _showPreview, _saving, _loading,
                 _error, _preview, _migrationNeeded, _editingEntity,
                 topologyLoaded, serverVars, callVars, historyVars>>

\* Discard Changes in the unsaved-changes dialog: _confirmNavigation
ConfirmNavigation ==
  /\ TopDialog = "unsaved"
  /\ _pendingConfig' = _config
  /\ saveCall' = Unalias(saveCall)
  /\ _hasChanges' = FALSE
  /\ _showUnsavedDialog' = FALSE
  /\ _activeTab' = IF _pendingNavigation # "null" THEN _pendingNavigation
                   ELSE _activeTab
  /\ _pendingNavigation' = "null"
  /\ lastAction' = [op |-> "confirmNavigation"]
  /\ UNCHANGED <<filtersTouched, normalizeVars, resolveVars, _config,
                 _showPreview, _saving, _loading, _error, _preview,
                 _migrationNeeded, _editingEntity, topologyLoaded, serverVars,
                 loadCall, previewCalls, historyVars>>

\* a _cancelNavigation that also discards the changes
CancelNavigationDiscards ==
  /\ TopDialog = "unsaved"
  /\ _showUnsavedDialog' = FALSE
  /\ _pendingNavigation' = "null"
  /\ _pendingConfig' = _config
  /\ _hasChanges' = FALSE
  /\ lastAction' = [op |-> "cancelNavigation"]
  /\ UNCHANGED <<filtersTouched, normalizeVars,
                 resolveVars, _config, _activeTab, _showPreview, _saving,
                 _loading, _error, _preview, _migrationNeeded, _editingEntity,
                 topologyLoaded, serverVars, callVars, historyVars>>

\* Stay Here, or a click beside the dialog: _cancelNavigation
CancelNavigation ==
  /\ TopDialog = "unsaved"
  /\ _showUnsavedDialog' = FALSE
  /\ _pendingNavigation' = "null"
  /\ lastAction' = [op |-> "cancelNavigation"]
  /\ UNCHANGED <<_pendingConfig, _hasChanges, filtersTouched, normalizeVars,
                 resolveVars, _config, _activeTab, _showPreview, _saving,
                 _loading, _error, _preview, _migrationNeeded, _editingEntity,
                 topologyLoaded, serverVars, callVars, historyVars>>

\* a Reset Changes that clears _hasChanges and keeps the pending config
ResetChangesFlagOnly ==
  /\ PageActive /\ _hasChanges
  /\ _hasChanges' = FALSE
  /\ lastAction' = [op |-> "resetChanges"]
  /\ UNCHANGED <<_pendingConfig, filtersTouched, normalizeVars, resolveVars,
                 _config, _activeTab, _showPreview, _showUnsavedDialog,
                 _pendingNavigation, _saving, _loading, _error, _preview,
                 _migrationNeeded, _editingEntity, topologyLoaded, serverVars,
                 callVars, historyVars>>

\* the Reset Changes button
ResetChanges ==
  /\ PageActive /\ _hasChanges
  /\ _pendingConfig' = _config
  /\ saveCall' = Unalias(saveCall)
  /\ _hasChanges' = FALSE
  /\ lastAction' = [op |-> "resetChanges"]
  /\ UNCHANGED <<filtersTouched, normalizeVars, resolveVars, _config,
                 _activeTab, _showPreview, _showUnsavedDialog,
                 _pendingNavigation, _saving, _loading, _error, _preview,
                 _migrationNeeded, _editingEntity, topologyLoaded, serverVars,
                 loadCall, previewCalls, historyVars>>

\* ---- preview and save
\* the sequence without its i-th element
RemoveAt(seq, i) == SubSeq(seq, 1, i - 1) \o SubSeq(seq, i + 1, Len(seq))

\* the Preview & Save button of the page: _computePreview up to its await;
\* the request carries the pending config as it is now
ComputePreview ==
  /\ PageActive /\ _hasChanges /\ ~_saving
  /\ requests < MaxRequests
  /\ requests' = requests + 1
  /\ previewCalls' = Append(previewCalls, _pendingConfig)
  /\ lastAction' = [op |-> "other"]
  /\ UNCHANGED <<_pendingConfig, _hasChanges, filtersTouched, normalizeVars,
                 resolveVars, panelVars, serverVars, loadCall, saveCall,
                 edits, previewOf, persisted>>

\* a _saveAndNavigate that switches to the requested tab at once
SaveAndNavigateAtOnce ==
  /\ TopDialog = "unsaved"
  /\ requests < MaxRequests
  /\ requests' = requests + 1
  /\ _showUnsavedDialog' = FALSE
  /\ _activeTab' = IF _pendingNavigation # "null" THEN _pendingNavigation
                   ELSE _activeTab
  /\ previewCalls' = Append(previewCalls, _pendingConfig)
  /\ lastAction' = [op |-> "other"]
  /\ UNCHANGED <<_pendingConfig, _hasChanges, filtersTouched, normalizeVars,
                 resolveVars, _config, _showPreview,
                 _pendingNavigation, _saving, _loading, _error, _preview,
                 _migrationNeeded, _editingEntity, topologyLoaded, serverVars,
                 loadCall, saveCall, edits, previewOf, persisted>>

\* Preview & Save in the unsaved-changes dialog: _saveAndNavigate
SaveAndNavigate ==
  /\ TopDialog = "unsaved"
  /\ requests < MaxRequests
  /\ requests' = requests + 1
  /\ _showUnsavedDialog' = FALSE
  /\ previewCalls' = Append(previewCalls, _pendingConfig)
  /\ lastAction' = [op |-> "other"]
  /\ UNCHANGED <<_pendingConfig, _hasChanges, filtersTouched, normalizeVars,
                 resolveVars, _config, _activeTab, _showPreview,
                 _pendingNavigation, _saving, _loading, _error, _preview,
                 _migrationNeeded, _editingEntity, topologyLoaded, serverVars,
                 loadCall, saveCall, edits, previewOf, persisted>>

\* compute_preview answers: the rest of _computePreview
ComputePreviewSucceeds(i) ==
  /\ _preview' = ComputePreviewResult(previewCalls[i])
  /\ _showPreview' = TRUE
  /\ previewOf' = previewCalls[i]
  /\ previewCalls' = RemoveAt(previewCalls, i)
  /\ lastAction' = [op |-> "other"]
  /\ UNCHANGED <<_pendingConfig, _hasChanges, filtersTouched, normalizeVars,
                 resolveVars, _config, _activeTab, _showUnsavedDialog,
                 _pendingNavigation, _saving, _loading, _error,
                 _migrationNeeded, _editingEntity, topologyLoaded, serverVars,
                 loadCall, saveCall, edits, requests, persisted>>

ComputePreviewFails(i) ==
  /\ _error' = "error"
  /\ previewCalls' = RemoveAt(previewCalls, i)
  /\ lastAction' = [op |-> "other"]
  /\ UNCHANGED <<_pendingConfig, _hasChanges, filtersTouched, normalizeVars,
                 resolveVars, _config, _activeTab, _showPreview,
                 _showUnsavedDialog, _pendingNavigation, _saving, _loading,
                 _preview, _migrationNeeded, _editingEntity, topologyLoaded,
                 serverVars, loadCall, saveCall, historyVars>>

\* Cancel in the preview dialog, or a click beside it
CancelPreview ==
  /\ TopDialog = "preview"
  /\ _showPreview' = FALSE
  /\ lastAction' = [op |-> "other"]
  /\ UNCHANGED <<_pendingConfig, _hasChanges, filtersTouched, normalizeVars,
                 resolveVars, _config, _activeTab, _showUnsavedDialog,
                 _pendingNavigation, _saving, _loading, _error, _preview,
                 _migrationNeeded, _editingEntity, topologyLoaded, serverVars,
                 callVars, historyVars>>

\* Save Configuration in the preview dialog: _saveConfig up to its await.
\* sent is the config the request carries; obj is the configToSave object,
\* which _saveConfig reads again when the request has answered.
SaveConfig ==
  /\ TopDialog = "preview" /\ ~_saving
  /\ requests < MaxRequests
  /\ requests' = requests + 1
  /\ _saving' = TRUE
  /\ _error' = "null"
  /\ LET configToSave == _applyAutoAliases(_pendingConfig, _preview)
     IN  saveCall' = [sent |-> configToSave.config,
                      obj |-> configToSave.config,
                      aliased |-> configToSave.same]
  /\ lastAction' = [op |-> "saveConfig"]
  /\ UNCHANGED <<_pendingConfig, _hasChanges, filtersTouched, normalizeVars,
                 resolveVars, _config, _activeTab, _showPreview,
                 _showUnsavedDialog, _pendingNavigation, _loading, _preview,
                 _migrationNeeded, _editingEntity, topologyLoaded, serverVars,
                 loadCall, previewCalls, edits, previewOf,
                 persisted>>

\* save_config answers: the backend has stored the config it was sent; the
\* rest of the try block of _saveConfig up to the first await of _loadData
SaveConfigSucceeds ==
  /\ saveCall # NULL
  /\ serverConfig' = saveCall.sent
  /\ _config' = saveCall.obj
  /\ _pendingConfig' = saveCall.obj
  /\ _hasChanges' = FALSE
  /\ _showPreview' = FALSE
  /\ IF _pendingNavigation # "null"
       THEN _activeTab' = _pendingNavigation /\ _pendingNavigation' = "null"
       ELSE UNCHANGED <<_activeTab, _pendingNavigation>>
  /\ StartLoadData
  /\ saveCall' = NULL
  /\ persisted' = saveCall.sent
  /\ lastAction' = [op |-> "save_config"]
  /\ UNCHANGED <<filtersTouched, normalizeVars, resolveVars,
                 _showUnsavedDialog, _saving, _preview, _migrationNeeded,
                 _editingEntity, topologyLoaded, serverMigration,
                 previewCalls, edits, requests, previewOf>>

\* a rejected save_config that closes the preview and clears _hasChanges
\* as a successful one does
SaveConfigFailsCommits ==
  /\ saveCall # NULL
  /\ _error' = "error"
  /\ _saving' = FALSE
  /\ _hasChanges' = FALSE
  /\ _showPreview' = FALSE
  /\ saveCall' = NULL
  /\ lastAction' = [op |-> "save_config_failed"]
  /\ UNCHANGED <<_pendingConfig, filtersTouched, normalizeVars,
                 resolveVars, _config, _activeTab,
                 _showUnsavedDialog, _pendingNavigation, _loading, _preview,
                 _migrationNeeded, _editingEntity, topologyLoaded, serverVars,
                 loadCall, previewCalls, historyVars>>

\* save_config is rejected: the catch and finally blocks of _saveConfig
SaveConfigFails ==
  /\ saveCall # NULL
  /\ _error' = "error"
  /\ _saving' = FALSE
  /\ saveCall' = NULL
  /\ lastAction' = [op |-> "save_config_failed"]
  /\ UNCHANGED <<_pendingConfig, _hasChanges, filtersTouched, normalizeVars,
                 resolveVars, _config, _activeTab, _showPreview,
                 _showUnsavedDialog, _pendingNavigation, _loading, _preview,
                 _migrationNeeded, _editingEntity, topologyLoaded, serverVars,
                 loadCall, previewCalls, historyVars>>

NextPanel ==
  \/ GetConfigSucceeds
  \/ GetEntitiesSucceeds
  \/ LoadDataFails
  \/ \E action \in {"import", "skip"} : HandleMigration(action)
  \/ HandleMigrationSucceeds
  \/ HandleMigrationFails
  \/ \E e \in EditEntities, v \in EditExpose : PanelEntityButton(e, v)
  \/ \E d \in EditDevices, v \in EditExpose : PanelDeviceButton(d, v)
  \/ \E e \in EditEntities : PanelEntityFilter(e)
  \/ \E d \in EditDevices : PanelDeviceFilter(d)
  \/ \E domain \in EditDomains : ToggleDomain(domain)
  \/ \E areaId \in EditAreas : ToggleArea(areaId)
  \/ \E patterns \in EditPatterns : InputPatterns(patterns)
  \/ \E key \in EditSettings : ChangeSetting(key)
  \/ \E e \in EditEntities : OpenEntityConfigDialog(e)
  \/ CloseEntityConfigDialog
  \/ SaveEntityConfig
  \/ \E tab \in Tabs : SetTab(tab)
  \/ ConfirmNavigation
  \/ CancelNavigation
  \/ ResetChanges
  \/ ComputePreview
  \/ SaveAndNavigate
  \/ \E i \in DOMAIN previewCalls : ComputePreviewSucceeds(i)
  \/ \E i \in DOMAIN previewCalls : ComputePreviewFails(i)
  \/ CancelPreview
  \/ SaveConfig
  \/ SaveConfigSucceeds
  \/ SaveConfigFails

SpecPanel == InitPanel /\ [][NextPanel]_vars

\* The panel with every hass.callWS request answered in the end: a request
\* in flight eventually resolves or rejects.
ResponseFairness ==
  /\ WF_vars(GetConfigSucceeds \/ GetEntitiesSucceeds \/ LoadDataFails)
  /\ WF_vars(HandleMigrationSucceeds \/ HandleMigrationFails)
  /\ WF_vars(SaveConfigSucceeds \/ SaveConfigFails)
  /\ WF_vars(\E i \in DOMAIN previewCalls :
               ComputePreviewSucceeds(i) \/ ComputePreviewFails(i))

\* The liveness specification takes the steps of NextPanel, its edit
\* operations and its requests within a budget of their own.
LiveBudget == edits' <= MaxLiveEdits /\ requests' <= MaxLiveRequests

NextPanelLive ==
  \/ GetConfigSucceeds
  \/ GetEntitiesSucceeds
  \/ LoadDataFails
  \/ \E action \in {"import", "skip"} : HandleMigration(action)
  \/ HandleMigrationSucceeds
  \/ HandleMigrationFails
  \/ \E e \in EditEntities, v \in EditExpose : PanelEntityButton(e, v) /\ LiveBudget
  \/ \E d \in EditDevices, v \in EditExpose : PanelDeviceButton(d, v) /\ LiveBudget
  \/ \E e \in EditEntities : PanelEntityFilter(e) /\ LiveBudget
  \/ \E d \in EditDevices : PanelDeviceFilter(d) /\ LiveBudget
  \/ \E domain \in EditDomains : ToggleDomain(domain) /\ LiveBudget
  \/ \E areaId \in EditAreas : ToggleArea(areaId) /\ LiveBudget
  \/ \E patterns \in EditPatterns : InputPatterns(patterns) /\ LiveBudget
  \/ \E key \in EditSettings : ChangeSetting(key) /\ LiveBudget
  \/ \E e \in EditEntities : OpenEntityConfigDialog(e)
  \/ CloseEntityConfigDialog
  \/ SaveEntityConfig /\ LiveBudget
  \/ \E tab \in Tabs : SetTab(tab)
  \/ ConfirmNavigation
  \/ CancelNavigation
  \/ ResetChanges
  \/ ComputePreview /\ LiveBudget
  \/ SaveAndNavigate /\ LiveBudget
  \/ \E i \in DOMAIN previewCalls : ComputePreviewSucceeds(i)
  \/ \E i \in DOMAIN previewCalls : ComputePreviewFails(i)
  \/ CancelPreview
  \/ SaveConfig /\ LiveBudget
  \/ SaveConfigSucceeds
  \/ SaveConfigFails

SpecPanelLive == InitPanel /\ [][NextPanelLive]_vars /\ ResponseFairness

\* ------------------------------------------------------- state shorthands
EntityInfo(entityId) == _getEntityOverrideInfo(_pendingConfig, entityId)
DeviceInfo(deviceId) == _getDeviceOverrideInfo(_pendingConfig, deviceId)
Selected(v) == [expose |-> v, source |-> "selected"]
Implied(v) == [expose |-> v, source |-> "implied"]
\* the entities a device owns, and those of them that are not filtered
Owned(deviceId) == {e \in EntityIds : DeviceIdOf(e) = deviceId}
Active(deviceId) == Owned(deviceId) \ _pendingConfig.filtered_entities

TypeOK ==
  /\ _hasChanges \in BOOLEAN
  /\ filtersTouched \in BOOLEAN
  /\ _pendingConfig.filtered_entities \subseteq EntityIds
  /\ _pendingConfig.filtered_devices \subseteq DeviceIds
  /\ \A e \in EntityIds :
       EntityInfo(e) \in {NULL} \cup {Selected(v) : v \in ExposeValues}
                                \cup {Implied(v) : v \in ExposeValues}
  /\ \A d \in DeviceIds :
       DeviceInfo(d) \in {NULL} \cup {Selected(v) : v \in ExposeValues}
                                \cup {Implied(v) : v \in ExposeValues}

\* --------------------------------------------------------------- claims
\* the state the handlers leave behind, for the action formulas
EntityInfoAfter(entityId) == _getEntityOverrideInfo(_pendingConfig', entityId)
DeviceInfoAfter(deviceId) == _getDeviceOverrideInfo(_pendingConfig', deviceId)
\* the recompute would not change the device
Converged(deviceId) ==
  _recalculateDeviceState(_pendingConfig, deviceId) = _pendingConfig

\* C1 (as stated): after every entity or device button action, in a
\* sequence of button actions only, the recompute of any device would leave
\* device_overrides unchanged.
C1_EveryDeviceConverged ==
  (~filtersTouched /\ lastAction.op \in {"entity", "device"})
    => \A d \in DeviceIds : Converged(d)

\* C1 (amended): after an entity button action the recompute of the owning
\* device, and after a device button action that selects the device the
\* recompute of that device, would change nothing; and in a sequence of
\* button actions only, a device that the recompute would change is unset
\* (left so by a device toggle-off), never implied.
C1_ActedDeviceConverged ==
  /\ (lastAction.op = "entity" /\ DeviceIdOf(lastAction.id) # 0)
       => Converged(DeviceIdOf(lastAction.id))
  /\ (lastAction.op = "device" /\ DeviceInfo(lastAction.id) # NULL)
       => Converged(lastAction.id)
  /\ ~filtersTouched
       => \A d \in DeviceIds : ~Converged(d) => DeviceInfo(d) = NULL

\* an entity click has just made both entities of device 1 selected(true)
\* and the device implied(true)
C1_Witness ==
  /\ lastAction.op = "entity" /\ DeviceIdOf(lastAction.id) = 1
  /\ EntityInfo(1) = Selected("true") /\ EntityInfo(2) = Selected("true")
  /\ DeviceInfo(1) = Implied("true")
  /\ Active(1) = {1, 2}

\* C2: a device button action (set or toggle-off) leaves the stored
\* override of every entity that was selected exactly as it was.
C2_SelectedEntityKept ==
  [][lastAction'.op = "device"
       => \A e \in EntityIds :
            SourceOf(EntityInfo(e)) = "selected"
              => _pendingConfig'.entity_overrides[e]
                   = _pendingConfig.entity_overrides[e]]_vars

\* both entities selected(true), then "Exclude All" on their device: the
\* device is selected(false) and the entities are still selected(true)
C2_Witness ==
  /\ lastAction = [op |-> "device", id |-> 1, expose |-> "false"]
  /\ DeviceInfo(1) = Selected("false")
  /\ EntityInfo(1) = Selected("true") /\ EntityInfo(2) = Selected("true")
  /\ Active(1) = {1, 2}

\* C3: an entity button action on an entity whose device is selected(v)
\* leaves the device's override selected(v).
C3_SelectedDeviceKept ==
  [][(lastAction'.op = "entity" /\ DeviceIdOf(lastAction'.id) # 0
        /\ SourceOf(DeviceInfo(DeviceIdOf(lastAction'.id))) = "selected")
       => _pendingConfig'.device_overrides[DeviceIdOf(lastAction'.id)]
            = _pendingConfig.device_overrides[DeviceIdOf(lastAction'.id)]]_vars

\* an entity click under a device selected(false) has made all its
\* non-filtered entities selected(true); the device is still selected(false)
C3_Witness ==
  /\ lastAction.op = "entity" /\ DeviceIdOf(lastAction.id) = 1
  /\ DeviceInfo(1) = Selected("false")
  /\ Active(1) = {1, 2}
  /\ EntityInfo(1) = Selected("true") /\ EntityInfo(2) = Selected("true")

\* C4: an entity button action with value v removes the entity's override
\* when the entity was selected(v) and makes it {expose: v, source:
\* selected} in every other case.
C4_EntityButton ==
  [][lastAction'.op = "entity"
       => _pendingConfig'.entity_overrides[lastAction'.id]
            = IF EntityInfo(lastAction'.id) = Selected(lastAction'.expose)
                THEN Absent
                ELSE OverrideObject(lastAction'.expose, "selected")]_vars

\* an entity click has removed the clicked entity's override (toggle-off)
C4_Witness ==
  /\ lastAction.op = "entity"
  /\ _pendingConfig.entity_overrides[lastAction.id] = Absent

\* C5: a device button action with value v on a device that is not
\* selected(v) makes the device selected(v) and makes every non-filtered
\* entity it owns that was unset or implied(*) implied(v).
C5_DeviceButtonSets ==
  [][(lastAction'.op = "device"
        /\ DeviceInfo(lastAction'.id) # Selected(lastAction'.expose))
       => /\ _pendingConfig'.device_overrides[lastAction'.id]
               = OverrideObject(lastAction'.expose, "selected")
          /\ \A e \in Active(lastAction'.id) :
               SourceOf(EntityInfo(e)) \in {"undefined", "implied"}
                 => _pendingConfig'.entity_overrides[e]
                      = OverrideObject(lastAction'.expose, "implied")]_vars

\* "Exclude All" has made the device selected(false) and entity 1
\* implied(false), next to entity 2 that is selected(true)
C5_Witness ==
  /\ lastAction = [op |-> "device", id |-> 1, expose |-> "false"]
  /\ DeviceInfo(1) = Selected("false")
  /\ Active(1) = {1, 2}
  /\ EntityInfo(1) = Implied("false") /\ EntityInfo(2) = Selected("true")

\* C6: a device button action with value v on a device that is selected(v)
\* removes the device's override and the override of every non-filtered
\* owned entity that is implied(*), and leaves every selected entity's
\* override unchanged.
C6_DeviceToggleOff ==
  [][(lastAction'.op = "device"
        /\ DeviceInfo(lastAction'.id) = Selected(lastAction'.expose))
       => /\ _pendingConfig'.device_overrides[lastAction'.id] = Absent
          /\ \A e \in Active(lastAction'.id) :
               SourceOf(EntityInfo(e)) = "implied"
                 => _pendingConfig'.entity_overrides[e] = Absent
          /\ \A e \in EntityIds :
               SourceOf(EntityInfo(e)) = "selected"
                 => _pendingConfig'.entity_overrides[e]
                      = _pendingConfig.entity_overrides[e]]_vars

\* a toggle-off has removed the device's override and the implied override
\* of entity 2 (no filter was touched, so entity 2 was implied under the
\* selected device); entity 1 is still selected
C6_Witness ==
  /\ lastAction.op = "device" /\ lastAction.id = 1
  /\ ~filtersTouched
  /\ Active(1) = {1, 2}
  /\ DeviceInfo(1) = NULL
  /\ SourceOf(EntityInfo(1)) = "selected" /\ EntityInfo(2) = NULL

\* C7: an entity button action under a device that is not selected and has
\* a non-filtered entity leaves the device implied(v) if every non-filtered
\* entity it owns is then selected(v), and unset otherwise.
C7_UpwardRecompute ==
  [][(lastAction'.op = "entity" /\ DeviceIdOf(lastAction'.id) # 0
        /\ SourceOf(DeviceInfo(DeviceIdOf(lastAction'.id))) # "selected"
        /\ Active(DeviceIdOf(lastAction'.id)) # {})
       => LET d == DeviceIdOf(lastAction'.id)
          IN  \/ \E v \in ExposeValues :
                   /\ \A e \in Active(d) : EntityInfoAfter(e) = Selected(v)
                   /\ _pendingConfig'.device_overrides[d]
                        = OverrideObject(v, "implied")
              \/ /\ ~ \E v \in ExposeValues :
                        \A e \in Active(d) : EntityInfoAfter(e) = Selected(v)
                 /\ _pendingConfig'.device_overrides[d] = Absent]_vars

\* the click "Exclude" on entity 2 has left the two entities selected with
\* different values and the device unset
C7_Witness ==
  /\ lastAction = [op |-> "entity", id |-> 2, expose |-> "false"]
  /\ Active(1) = {1, 2}
  /\ EntityInfo(1) = Selected("true") /\ EntityInfo(2) = Selected("false")
  /\ DeviceInfo(1) = NULL

\* a device is implied(v) only with a non-filtered entity and with all its
\* non-filtered entities selected(v)
ImpliedIsAggregate(deviceId) ==
  SourceOf(DeviceInfo(deviceId)) = "implied"
    => /\ Active(deviceId) # {}
       /\ \A e \in Active(deviceId) :
            EntityInfo(e) = Selected(DeviceInfo(deviceId).expose)

\* C8 (as stated): in every state reached by entity actions, device actions
\* and filter toggles from a config without overrides, an implied(v) device
\* has a non-filtered entity and all its non-filtered entities selected(v).
C8_ImpliedIsAggregateAlways == \A d \in DeviceIds : ImpliedIsAggregate(d)

\* C8 (amended): the same in every state reached by entity actions and
\* device actions alone (the filter lists as loaded).
C8_ImpliedIsAggregateButtons ==
  ~filtersTouched => \A d \in DeviceIds : ImpliedIsAggregate(d)

\* with entity 1 filtered since the load, device 1 is implied(false) by its
\* one non-filtered entity
C8_Witness ==
  /\ ~filtersTouched
  /\ Active(1) = {2}
  /\ DeviceInfo(1) = Implied("false")
  /\ EntityInfo(1) = NULL /\ EntityInfo(2) = Selected("false")

\* C9: an override becomes a selected one only in the button action on
\* that entity or device; the clicked item's own new state is never
\* implied; an entity becomes implied only in a button action on its
\* device and a device only in a button action on one of its entities.
C9_Provenance ==
  [][/\ \A e \in EntityIds :
          _pendingConfig'.entity_overrides[e] # _pendingConfig.entity_overrides[e]
            => /\ SourceOf(EntityInfoAfter(e)) = "selected"
                    => lastAction'.op = "entity" /\ lastAction'.id = e
               /\ SourceOf(EntityInfoAfter(e)) = "implied"
                    => lastAction'.op = "device"
                         /\ lastAction'.id = DeviceIdOf(e)
     /\ \A d \in DeviceIds :
          _pendingConfig'.device_overrides[d] # _pendingConfig.device_overrides[d]
            => /\ SourceOf(DeviceInfoAfter(d)) = "selected"
                    => lastAction'.op = "device" /\ lastAction'.id = d
               /\ SourceOf(DeviceInfoAfter(d)) = "implied"
                    => lastAction'.op = "entity"
                         /\ DeviceIdOf(lastAction'.id) = d
     /\ lastAction'.op = "entity"
          => SourceOf(EntityInfoAfter(lastAction'.id)) # "implied"
     /\ lastAction'.op = "device"
          => SourceOf(DeviceInfoAfter(lastAction'.id)) # "implied"]_vars

\* "Expose All" on device 1 after "Exclude" on entity 2: the device and
\* entity 2 are selected, entity 1 is implied by the device
C9_Witness ==
  /\ lastAction = [op |-> "device", id |-> 1, expose |-> "true"]
  /\ DeviceInfo(1) = Selected("true")
  /\ EntityInfo(1) = Implied("true") /\ EntityInfo(2) = Selected("false")

\* what an override slot of the reachable states can hold
StoredValues ==
  {Absent} \cup {OverrideObject(v, s) : v \in ExposeValues,
                                        s \in {"selected", "implied"}}

\* C10: a device button action leaves the stored override of every
\* filtered entity as it was, and the device state that an entity button
\* action leaves behind is the same whatever the overrides of the device's
\* other, filtered entities are.
C10_FilteredFrozen ==
  [][/\ lastAction'.op = "device"
          => \A e \in _pendingConfig.filtered_entities :
               _pendingConfig'.entity_overrides[e]
                 = _pendingConfig.entity_overrides[e]
     /\ (lastAction'.op = "entity" /\ DeviceIdOf(lastAction'.id) # 0)
          => LET d == DeviceIdOf(lastAction'.id)
             IN  \A f \in (Owned(d) \cap _pendingConfig.filtered_entities)
                            \ {lastAction'.id} :
                   \A x \in StoredValues :
                     _handleEntityButtonClick(
                         [_pendingConfig EXCEPT !.entity_overrides[f] = x],
                         lastAction'.id, lastAction'.expose).device_overrides[d]
                       = _pendingConfig'.device_overrides[d]]_vars

\* "Expose All" on device 1 while entity 1 is filtered: entity 2 follows the
\* device, entity 1 keeps its implied(false)
C10_Witness ==
  /\ lastAction = [op |-> "device", id |-> 1, expose |-> "true"]
  /\ Active(1) = {2}
  /\ DeviceInfo(1) = Selected("true")
  /\ EntityInfo(1) = Implied("false") /\ EntityInfo(2) = Implied("true")

\* C11 (as stated): while a device is in filtered_devices, an entity
\* button action on one of its entities leaves the device's stored override
\* unchanged; only a button action on the device itself changes it.
C11_FilteredDeviceFrozen ==
  [][\A d \in _pendingConfig.filtered_devices :
       _pendingConfig'.device_overrides[d] # _pendingConfig.device_overrides[d]
         => lastAction'.op = "device" /\ lastAction'.id = d]_vars

\* C12: a filter toggle of an entity or a device changes filtered_entities
\* or filtered_devices only, by exactly the toggled item; every other part
\* of the pending config is as before.
C12_FilterTransparency ==
  [][/\ lastAction'.op = "filter_entity"
          => _pendingConfig'
               = [_pendingConfig EXCEPT !.filtered_entities =
                    IF lastAction'.id \in @ THEN @ \ {lastAction'.id}
                                            ELSE @ \cup {lastAction'.id}]
     /\ lastAction'.op = "filter_device"
          => _pendingConfig'
               = [_pendingConfig EXCEPT !.filtered_devices =
                    IF lastAction'.id \in @ THEN @ \ {lastAction'.id}
                                            ELSE @ \cup {lastAction'.id}]]_vars

\* the filter button has hidden the last non-filtered entity of device 1;
\* the device is still implied(true) and the entities still selected(true)
C12_Witness ==
  /\ lastAction.op = "filter_entity" /\ DeviceIdOf(lastAction.id) = 1
  /\ Active(1) = {}
  /\ DeviceInfo(1) = Implied("true")
  /\ EntityInfo(1) = Selected("true") /\ EntityInfo(2) = Selected("true")

\* the slot a getter has read, the value written back for a returned info
\* ({expose, source} as an object, null as null), and the legacy encodings
StoredEntity == _pendingConfig.entity_overrides[1]
StoredDevice == _pendingConfig.device_overrides[1]
Encode(result) ==
  IF result = NULL THEN Absent
  ELSE OverrideObject(result.expose, result.source)
IsLegacy(override, b) ==
  \/ override = [kind |-> "boolean", value |-> b]
  \/ override = [kind |-> "object", expose |-> b]

\* C13 (as stated): for a stored bare boolean b, or an object {expose: b}
\* without source, both getters return {expose: b, source: 'selected'}.
C13_LegacyIsSelected ==
  \A b \in ExposeValues :
    /\ returned.entity # NoInfo /\ IsLegacy(StoredEntity, b)
         => returned.entity = Selected(b)
    /\ returned.device # NoInfo /\ IsLegacy(StoredDevice, b)
         => returned.device = Selected(b)

\* C14: normalizing the written-back result of a getter gives that result
\* again, for every stored encoding, the unset result included.
C14_NormalizeIdempotent ==
  /\ returned.entity # NoInfo => NormalizeOverride(Encode(returned.entity)) = returned.entity
  /\ returned.device # NoInfo => NormalizeOverride(Encode(returned.device)) = returned.device

\* both getters have run, one on an object without source, one on a slot
\* that is unset after normalization
C14_Witness ==
  /\ StoredEntity = [kind |-> "object", expose |-> "false"]
  /\ returned.entity = Selected("false")
  /\ StoredDevice = [kind |-> "string", value |-> "x"]
  /\ returned.device = NULL

\* what a getter may return: null or an {expose, source} record
IsInfo(result) ==
  \/ result = NULL
  \/ DOMAIN result = {"expose", "source"}
Recognized(override) ==
  \/ override.kind = "boolean"
  \/ override.kind = "object" /\ "expose" \in DOMAIN override

\* C15: for every stored value of a slot the getter returns null or an
\* {expose, source} record and raises nothing, and a value that is neither
\* a boolean nor an object with expose gives null.
C15_NormalizeTotal ==
  /\ returned.entity # NoInfo
       => /\ returned.entity # TypeError /\ IsInfo(returned.entity)
          /\ ~Recognized(StoredEntity) => returned.entity = NULL
  /\ returned.device # NoInfo
       => /\ returned.device # TypeError /\ IsInfo(returned.device)
          /\ ~Recognized(StoredDevice) => returned.device = NULL

\* the getters have run on a stored null and on a stored array
C15_Witness ==
  /\ StoredEntity = NULL /\ returned.entity = NULL
  /\ StoredDevice = [kind |-> "array"] /\ returned.device = NULL

\* the tiers of the precedence order that apply to an entity
HasEntityOverride(e) == _pendingConfig.entity_overrides[e] # Absent
HasDeviceOverride(e) ==
  DeviceIdOf(e) # 0 /\ _pendingConfig.device_overrides[DeviceIdOf(e)] # Absent
PatternExcluded(e) ==
  \E i \in DOMAIN _pendingConfig.bulk_rules.exclude_patterns :
    matches(_pendingConfig.bulk_rules.exclude_patterns[i], EntityName(e))
AreaExcluded(e) == EntityArea(e) \in _pendingConfig.bulk_rules.exclude_areas
DomainExposed(e) == EntityDomain(e) \in _pendingConfig.bulk_rules.expose_domains
Resolved == \A e \in EntityIds : decisions[e] # NotResolved

ConfigCore(config) ==
  [bulk_rules |-> config.bulk_rules,
   entity_overrides |-> config.entity_overrides,
   device_overrides |-> config.device_overrides,
   filtered_entities |-> config.filtered_entities,
   filtered_devices |-> config.filtered_devices]
\* a step that sends a save_config request
SaveSent == saveCall = NULL /\ saveCall' # NULL
EditOps ==
  {"entity", "device", "filter_entity", "filter_device", "domain", "area",
   "patterns", "settings", "entity_config"}

\* C16 (as stated): every save_config request carries the bulk rules,
\* overrides and filtered sets of the config that was sent in the
\* compute_preview request whose result the preview dialog displays.
C16_PreviewFidelity ==
  [][SaveSent => ConfigCore(saveCall'.sent) = ConfigCore(previewOf)]_vars

\* C17: no edit operation sends a save_config request or changes what the
\* backend stores; a save_config request is sent only by the Save button of
\* the displayed preview dialog, after some compute_preview request has
\* been answered successfully.
C17_SaveOnlyFromPreview ==
  [][/\ lastAction'.op \in EditOps
          => /\ ~SaveSent
             /\ saveCall # NULL => saveCall'.sent = saveCall.sent
             /\ serverConfig' = serverConfig
     /\ SaveSent
          => /\ lastAction'.op = "saveConfig"
             /\ _showPreview /\ ~_showUnsavedDialog
             /\ previewOf # NULL /\ _preview # NULL]_vars

\* a save_config request with both edits of the session is in flight
C17_Witness ==
  /\ saveCall # NULL /\ lastAction.op = "saveConfig"
  /\ edits = MaxEdits /\ _hasChanges
  /\ saveCall.sent = _pendingConfig /\ serverConfig # _pendingConfig

\* C18: with unsaved changes, _setTab for another tab leaves _activeTab as
\* it is, records the tab in _pendingNavigation and shows the dialog; and
\* any step that changes _activeTab while _hasChanges is true is Discard
\* Changes or the answer of a successful save.
C18_UnsavedGuard ==
  [][/\ lastAction'.op = "setTab" /\ _hasChanges /\ lastAction'.tab # _activeTab
          => /\ _activeTab' = _activeTab
             /\ _pendingNavigation' = lastAction'.tab
             /\ _showUnsavedDialog'
     /\ _hasChanges /\ _activeTab' # _activeTab
          => lastAction'.op \in {"confirmNavigation", "save_config"}]_vars

\* the dialog is open over the Devices & Entities tab for a click on
\* Settings
C18_Witness ==
  /\ lastAction = [op |-> "setTab", tab |-> "settings"]
  /\ _hasChanges /\ _activeTab = "devices_entities"
  /\ _showUnsavedDialog /\ _pendingNavigation = "settings"

\* C19 (as stated): after Reset Changes or Discard Changes the pending
\* config equals the config last loaded from or saved to the server,
\* _hasChanges is false and _config is as before.
C19_DiscardRestoresPersisted ==
  [][lastAction'.op \in {"resetChanges", "confirmNavigation"}
       => /\ _pendingConfig' = persisted
          /\ ~_hasChanges'
          /\ _config' = _config]_vars

\* an exclusion of some rule level applies to the entity
ExcludedAtSomeLevel(e) ==
  \/ HasEntityOverride(e) /\ _pendingConfig.entity_overrides[e].expose = "false"
  \/ HasDeviceOverride(e)
       /\ _pendingConfig.device_overrides[DeviceIdOf(e)].expose = "false"
  \/ PatternExcluded(e)
  \/ AreaExcluded(e)

\* C21: an entity excluded at any rule level (entity override false, owning
\* device override false, exclude pattern, excluded area) never gets the
\* decision exposed, whatever inclusions also apply to it.
C21_ExclusionsAlwaysWin ==
  Resolved =>
    \A e \in EntityIds :
      ExcludedAtSomeLevel(e) => decisions[e].decision # "exposed"

\* C22: every save_config request carries, for each entity that has an
\* entity_config entry with aliases in the pending config, exactly that
\* entry: auto-alias generation neither replaces nor extends it.
C22_CustomAliasesPreserved ==
  [][SaveSent =>
       \A e \in EntityIds :
         _pendingConfig.entity_config[e] # Absent
           => saveCall'.sent.entity_config[e] = _pendingConfig.entity_config[e]]_vars

\* a save_config request in flight for exposed entities 1 and 2: entity 1
\* keeps its manual aliases, entity 2 has got generated ones
C22_Witness ==
  /\ saveCall # NULL /\ lastAction.op = "saveConfig"
  /\ _preview # NULL /\ {1, 2} \subseteq _preview.exposed
  /\ _pendingConfig.entity_config[1] = ManualEntityConfig
  /\ _pendingConfig.entity_config[2] = Absent
  /\ ~saveCall.aliased
  /\ saveCall.sent.entity_config[1] = ManualEntityConfig
  /\ saveCall.sent.entity_config[2] = AutoEntityConfig

\* every non-filtered entity of a selected(v) device is implied(v) or
\* selected, in a given config
SelectedDeviceCoversIn(config, deviceId) ==
  LET deviceOverride == _getDeviceOverrideInfo(config, deviceId)
  IN  SourceOf(deviceOverride) = "selected"
        => \A e \in Owned(deviceId) \ config.filtered_entities :
             LET override == _getEntityOverrideInfo(config, e)
             IN  \/ override = Implied(deviceOverride.expose)
                 \/ SourceOf(override) = "selected"
SelectedDeviceCovers(deviceId) == SelectedDeviceCoversIn(_pendingConfig, deviceId)

\* C23 (as stated): in every state reached by entity and device button
\* actions, no non-filtered entity of a selected(v) device is unset: each is
\* implied(v) or selected.
C23_SelectedDeviceCovers ==
  ~filtersTouched => \A d \in DeviceIds : SelectedDeviceCovers(d)

\* C23 (amended): a device button action that leaves the device
\* selected(v) leaves each of its non-filtered entities implied(v) or
\* selected; and a button action ends this for a device only by toggling
\* off a selected entity of that device, which becomes unset while the
\* device stays selected.
C23_SelectedDeviceCoversUntilToggleOff ==
  [][/\ lastAction'.op = "device"
          => SelectedDeviceCoversIn(_pendingConfig', lastAction'.id)
     /\ lastAction'.op \in {"entity", "device"}
          => \A d \in DeviceIds :
               SelectedDeviceCovers(d) /\ ~SelectedDeviceCoversIn(_pendingConfig', d)
                 => /\ lastAction'.op = "entity"
                    /\ DeviceIdOf(lastAction'.id) = d
                    /\ SourceOf(EntityInfo(lastAction'.id)) = "selected"
                    /\ EntityInfoAfter(lastAction'.id) = NULL
                    /\ DeviceInfoAfter(d) = DeviceInfo(d)]_vars

\* entity 1, selected(true) when Expose All made device 1 selected(true)
\* and entity 2 implied(true), has just been toggled off
C23_Witness ==
  /\ ~filtersTouched
  /\ lastAction = [op |-> "entity", id |-> 1, expose |-> "true"]
  /\ DeviceInfo(1) = Selected("true")
  /\ EntityInfo(1) = NULL /\ EntityInfo(2) = Implied("true")
  /\ Active(1) = {1, 2}

\* a non-filtered entity is implied(v) only under a device selected(v)
ImpliedUnderSelected(e) ==
  (e \notin _pendingConfig.filtered_entities /\ SourceOf(EntityInfo(e)) = "implied")
    => /\ DeviceIdOf(e) # 0
       /\ DeviceInfo(DeviceIdOf(e)) = Selected(EntityInfo(e).expose)

\* C24 (as stated): in every state reached by entity actions, device
\* actions and filter toggles from a config without overrides, a
\* non-filtered entity is implied(v) only if its owning device is
\* selected(v).
C24_NoOrphanedImplied == \A e \in EntityIds : ImpliedUnderSelected(e)

\* C24 (amended): the same in every state reached by entity actions and
\* device actions alone (the filter lists as loaded).
C24_NoOrphanedImpliedButtons ==
  ~filtersTouched => \A e \in EntityIds : ImpliedUnderSelected(e)

\* entity 1 stays implied(false) under the device selected(false) when
\* entity 2 is clicked
C24_Witness ==
  /\ ~filtersTouched
  /\ lastAction = [op |-> "entity", id |-> 2, expose |-> "true"]
  /\ Active(1) = {1, 2}
  /\ DeviceInfo(1) = Selected("false")
  /\ EntityInfo(1) = Implied("false") /\ EntityInfo(2) = Selected("true")

\* C25: an entity button action on entity e changes at most the override
\* of e and the override of e's owning device: the overrides of all other
\* entities and devices, the filtered sets, bulk_rules and entity_config
\* stay as they are.
C25_EntityActionFrame ==
  [][lastAction'.op = "entity"
       => LET e == lastAction'.id
          IN  /\ \A other \in EntityIds \ {e} :
                   _pendingConfig'.entity_overrides[other]
                     = _pendingConfig.entity_overrides[other]
              /\ \A d \in DeviceIds \ {DeviceIdOf(e)} :
                   _pendingConfig'.device_overrides[d]
                     = _pendingConfig.device_overrides[d]
              /\ _pendingConfig'.filtered_entities = _pendingConfig.filtered_entities
              /\ _pendingConfig'.filtered_devices = _pendingConfig.filtered_devices
              /\ _pendingConfig'.bulk_rules = _pendingConfig.bulk_rules
              /\ _pendingConfig'.entity_config = _pendingConfig.entity_config]_vars

\* the click on entity 2 has made device 1 implied(false); the standalone
\* entity 3 and entity 1 have the overrides they had
C25_Witness ==
  /\ lastAction = [op |-> "entity", id |-> 2, expose |-> "false"]
  /\ Active(1) = {1, 2}
  /\ EntityInfo(1) = Selected("false") /\ EntityInfo(2) = Selected("false")
  /\ DeviceInfo(1) = Implied("false")
  /\ EntityInfo(3) = Selected("true")

\* C26: a device button action on device d with value v changes no other
\* device's override and no override of an entity d does not own, and d's
\* override afterwards is exactly the clicked result (absent if d was
\* selected(v), else selected(v)): no upward recompute runs.  An entity
\* button action changes no other entity's override: no downward
\* propagation runs.
C26_Directional ==
  [][/\ lastAction'.op = "device"
          => LET d == lastAction'.id
                 v == lastAction'.expose
             IN  /\ \A other \in DeviceIds \ {d} :
                      _pendingConfig'.device_overrides[other]
                        = _pendingConfig.device_overrides[other]
                 /\ \A e \in EntityIds \ Owned(d) :
                      _pendingConfig'.entity_overrides[e]
                        = _pendingConfig.entity_overrides[e]
                 /\ _pendingConfig'.device_overrides[d]
                      = IF DeviceInfo(d) = Selected(v) THEN Absent
                        ELSE OverrideObject(v, "selected")
     /\ lastAction'.op = "entity"
          => \A other \in EntityIds \ {lastAction'.id} :
               EntityInfoAfter(other) = EntityInfo(other)]_vars

\* Expose All has just toggled device 1 off: it is unset although both its
\* entities are selected(true), which the recompute would make
\* implied(true)
C26_Witness ==
  /\ lastAction = [op |-> "device", id |-> 1, expose |-> "true"]
  /\ Active(1) = {1, 2}
  /\ DeviceInfo(1) = NULL
  /\ EntityInfo(1) = Selected("true") /\ EntityInfo(2) = Selected("true")

\* C27: when a save_config request is rejected, _config, _pendingConfig,
\* _hasChanges, _activeTab and _pendingNavigation are as they were (and so
\* is what the backend stores), _error is set and _saving is false.
C27_FailedSaveCommitsNothing ==
  [][lastAction'.op = "save_config_failed"
       => /\ _config' = _config
          /\ _pendingConfig' = _pendingConfig
          /\ _hasChanges' = _hasChanges
          /\ _activeTab' = _activeTab
          /\ _pendingNavigation' = _pendingNavigation
          /\ serverConfig' = serverConfig
          /\ _error' # "null"
          /\ ~_saving']_vars

\* a save requested through the unsaved-changes dialog has just been
\* rejected: the changes, the tab and the pending navigation are still
\* there
C27_Witness ==
  /\ lastAction.op = "save_config_failed"
  /\ _hasChanges /\ _pendingConfig # _config
  /\ _pendingNavigation = "settings" /\ _activeTab = "devices_entities"
  /\ _error = "error" /\ ~_saving
  /\ serverConfig = _config

\* C28: whenever _hasChanges is false and a config has been loaded, the
\* pending config equals _config, after any interleaving of edits, resets,
\* discards, loads and save completions.
C28_CleanMeansEqual ==
  (~_hasChanges /\ _config # NULL) => _pendingConfig = _config

\* Reset Changes has just undone the edits of the session
C28_Witness ==
  /\ lastAction.op = "resetChanges"
  /\ edits = MaxEdits
  /\ ~_hasChanges /\ _config # NULL /\ _pendingConfig = _config

\* the config of a save_config request carries everything of a pending
\* config: its rules, overrides, filtered sets and settings, and its
\* entity_config but for the aliases generated for the request
Carries(sent, config) ==
  /\ ConfigCore(sent) = ConfigCore(config)
  /\ sent.settings = config.settings
  /\ \A e \in EntityIds :
       \/ sent.entity_config[e] = config.entity_config[e]
       \/ config.entity_config[e] = Absent /\ sent.entity_config[e] = AutoEntityConfig

\* C29 (as stated): when a save_config request succeeds while the pending
\* config has unsaved changes the request did not carry (edits made while
\* it was in flight), these edits are still in the pending config and
\* _hasChanges is still true.
C29_NoEditLost ==
  [][(lastAction'.op = "save_config" /\ _hasChanges
        /\ ~Carries(saveCall.sent, _pendingConfig))
       => /\ _hasChanges'
          /\ _pendingConfig' = _pendingConfig]_vars

\* a step in which a get_config response arrives
GetConfigAnswered == loadCall = "get_config" /\ loadCall' = "get_entities"

\* C30 (as stated): _config changes only when a get_config response
\* arrives or a save_config request succeeds, and right after a successful
\* save _config is the config that request carried, even if the pending
\* config was edited while the request was in flight.
C30_ConfigIsWhatWasSent ==
  [][/\ _config' # _config
          => GetConfigAnswered \/ lastAction'.op = "save_config"
     /\ lastAction'.op = "save_config" => _config' = saveCall.sent]_vars

\* C31 (as stated): _pendingNavigation is non-null only while the
\* unsaved-changes dialog is shown, or a preview or save that followed it
\* is still open or in flight.
C31_NavigationWithinDialogFlow ==
  _pendingNavigation # "null"
    => \/ _showUnsavedDialog
       \/ _showPreview
       \/ previewCalls # <<>>
       \/ saveCall # NULL

C33_StayHere ==
  [][lastAction'.op = "cancelNavigation"
       => /\ ~_showUnsavedDialog'
          /\ _pendingNavigation' = "null"
          /\ _pendingConfig' = _pendingConfig
          /\ _config' = _config
          /\ _hasChanges' = _hasChanges
          /\ _activeTab' = _activeTab]_vars

\* Stay Here has just closed the dialog over the edited Devices & Entities
\* tab
C33_Witness ==
  /\ lastAction.op = "cancelNavigation"
  /\ ~_showUnsavedDialog /\ _pendingNavigation = "null"
  /\ _hasChanges /\ _pendingConfig # _config
  /\ _activeTab = "devices_entities"

\* C34: an entity button action on an entity whose owning device has no
\* non-filtered entity leaves the stored override of that device as it is,
\* be the device unset, implied or selected.
C34_EmptyDeviceUntouched ==
  [][(/\ lastAction'.op = "entity"
      /\ DeviceIdOf(lastAction'.id) # 0
      /\ Active(DeviceIdOf(lastAction'.id)) = {})
       => _pendingConfig'.device_overrides[DeviceIdOf(lastAction'.id)]
            = _pendingConfig.device_overrides[DeviceIdOf(lastAction'.id)]]_vars

\* both entities of device 1 were filtered while it was implied(true);
\* the click that toggled entity 1 off has left the device implied(true)
C34_Witness ==
  /\ lastAction = [op |-> "entity", id |-> 1, expose |-> "true"]
  /\ Active(1) = {}
  /\ DeviceInfo(1) = Implied("true")
  /\ EntityInfo(1) = NULL /\ EntityInfo(2) = Selected("true")

\* C35: the config a save_config request carries has the bulk rules,
\* overrides, filtered sets and settings of the pending config; its
\* entity_config differs only by generated aliases for entities that the
\* current preview lists as exposed and that had none; the pending config
\* is not changed by the request; and with settings.auto_aliases false the
\* config sent is the pending config.
C35_AutoAliasesConfined ==
  [][SaveSent =>
       LET sent == saveCall'.sent
       IN  /\ ConfigCore(sent) = ConfigCore(_pendingConfig)
           /\ sent.settings = _pendingConfig.settings
           /\ \A e \in EntityIds :
                sent.entity_config[e] # _pendingConfig.entity_config[e]
                  => /\ e \in _preview.exposed
                     /\ _pendingConfig.entity_config[e] = Absent
                     /\ sent.entity_config[e] = AutoEntityConfig
           /\ _pendingConfig' = _pendingConfig
           /\ _pendingConfig.settings.auto_aliases = "false"
                => sent = _pendingConfig]_vars

\* a save_config request in flight that differs from the pending config
\* by the generated aliases of the one exposed entity
C35_Witness ==
  /\ saveCall # NULL /\ lastAction.op = "saveConfig"
  /\ _preview # NULL /\ _preview.exposed = {1}
  /\ saveCall.sent # _pendingConfig
  /\ _pendingConfig.entity_config[1] = Absent
  /\ saveCall.sent.entity_config[1] = AutoEntityConfig
  /\ saveCall.sent.entity_config[2] = Absent

\* C36: with every request answered in the end, whenever _loading or
\* _saving is true (a load, a migration or a save is under way) a state
\* follows in which both are false, whether the calls succeed or fail.
C36_BusyFlagsClear ==
  (_loading \/ _saving) ~> (~_loading /\ ~_saving)

\* a save has succeeded and the reload after it has ended: nothing is in
\* flight and both flags are false
C36_Witness ==
  /\ ~_loading /\ ~_saving
  /\ loadCall = "none" /\ saveCall = NULL /\ previewCalls = <<>>
  /\ persisted # NULL /\ persisted.entity_overrides[1] # Absent
  /\ _config = serverConfig /\ ~_hasChanges
  /\ requests = 2


====
